---- MODULE Spec2Model ----
(***************************************************************************)
(* PLUMBUS backup orchestration: the Store (database.py), the Job Runner   *)
(* and Job Scheduler (backup_manager.py) and the job API (app.py).         *)
(*                                                                         *)
(* Text is a sequence of tokens (each token a fixed chunk of characters),  *)
(* the empty sequence being the empty string.  A nullable value is NULL    *)
(* (Python None / SQL NULL) or Some(v).                                    *)
(***************************************************************************)
EXTENDS Integers, Sequences, FiniteSets, TLC

VARIABLES
    clients,    \* table clients: id -> row
    jobs,       \* table jobs: id -> row
    backups,    \* table backups: sequence of rows, row id = index (AUTOINCREMENT)
    triggers,   \* the scheduler's job store: ids j with a job "job_<j>"
    dirs,       \* artifact directories that exist on disk
    started,    \* argument lists handed to subprocess.run
    log,        \* log lines written so far
    now,        \* wall clock, in seconds
    pc,         \* per worker: position inside run_backup_job
    call,       \* per worker: local variables of its run_backup_job call
    req,        \* the last API request or restore call, and its response
    seq         \* sqlite_sequence: per AUTOINCREMENT table, the last id given

vars == <<clients, jobs, backups, triggers, dirs, started, log, now, pc, call, req, seq>>

-----------------------------------------------------------------------------
(* Bounds of the model *)

MaxBackups == 1
MaxTime == 1
MaxSize == 1
MaxPathLen == 3
MaxJobs == 2
MaxOverlap == 2
MaxClients == 2

Workers == {"w1", "w2"}
\* what a walk of an artifact directory can find: (bytes, files), no bytes
\* without a file
Measures == {m \in (0..MaxSize) \X {0, 1} : m[2] = 0 => m[1] = 0}

-----------------------------------------------------------------------------
(* Values *)

NULL == << >>
Some(v) == <<v>>

\* Python truthiness of an optional string / text: None and '' are falsy
TruthyStr(x) == x # NULL /\ x[1] # ""
TruthyText(x) == x # NULL /\ x[1] # << >>

\* dict.get(key): None when the key is absent
Get(d, k) == IF k \in DOMAIN d THEN d[k] ELSE NULL

Digit == <<"0", "1", "2", "3", "4", "5", "6", "7", "8", "9">>

RECURSIVE StrT(_)
\* str(n) for n >= 0, as text
StrT(n) == IF n < 10 THEN <<Digit[n + 1]>> ELSE StrT(n \div 10) \o <<Digit[(n % 10) + 1]>>

RECURSIVE Flatten(_)
\* the characters of a list of strings, in order (used by str() of a list)
Flatten(ss) == IF ss = << >> THEN << >> ELSE Head(ss) \o Flatten(Tail(ss))

\* "a or b" on two strings
OrText(a, b) == IF a # << >> THEN a ELSE b

-----------------------------------------------------------------------------
(* Store: database.py *)

get_client(cs, client_id) ==
    IF client_id \in DOMAIN cs THEN Some([id |-> client_id] @@ cs[client_id]) ELSE NULL

\* SELECT j.*, c.name, c.host, c.username FROM jobs j LEFT JOIN clients c
get_job(js, cs, job_id) ==
    IF job_id \notin DOMAIN js THEN NULL
    ELSE LET j == js[job_id]
             c == get_client(cs, j.client_id)
         IN  Some([id |-> job_id,
                   client_name |-> IF c = NULL THEN NULL ELSE Some(c[1].name),
                   host |-> IF c = NULL THEN NULL ELSE Some(c[1].host),
                   username |-> IF c = NULL THEN NULL ELSE Some(c[1].username)] @@ j)

\* mutant: the UPDATE has no WHERE clause
update_job_last_run_all_rows(js, job_id, ts) ==
    [j \in DOMAIN js |-> [js[j] EXCEPT !.last_run = Some(ts)]]

update_job_last_run(js, job_id, ts) ==
    [j \in DOMAIN js |-> IF j = job_id THEN [js[j] EXCEPT !.last_run = Some(ts)] ELSE js[j]]

\* mutant: the Run is inserted as pending, whatever status is asked for
add_backup_pending(bs, job_id, status, start_time, backup_path) ==
    Append(bs, [job_id |-> job_id, status |-> "pending", start_time |-> start_time,
                end_time |-> NULL, size_bytes |-> NULL, file_count |-> NULL,
                error_message |-> NULL, backup_path |-> backup_path])

add_backup(bs, job_id, status, start_time, backup_path) ==
    Append(bs, [job_id |-> job_id, status |-> status, start_time |-> start_time,
                end_time |-> NULL, size_bytes |-> NULL, file_count |-> NULL,
                error_message |-> NULL, backup_path |-> backup_path])

\* mutant: the end time is never written
update_backup_no_end_time(bs, backup_id, status, end_time, size_bytes, file_count, error_message) ==
    [i \in DOMAIN bs |->
        IF i # backup_id THEN bs[i]
        ELSE [bs[i] EXCEPT
                !.status = IF TruthyStr(status) THEN status[1] ELSE @,
                !.size_bytes = IF size_bytes # NULL THEN size_bytes ELSE @,
                !.file_count = IF file_count # NULL THEN file_count ELSE @,
                !.error_message = IF TruthyText(error_message) THEN error_message ELSE @]]

\* mutant: the size is never written
update_backup_no_size(bs, backup_id, status, end_time, size_bytes, file_count, error_message) ==
    [i \in DOMAIN bs |->
        IF i # backup_id THEN bs[i]
        ELSE [bs[i] EXCEPT
                !.status = IF TruthyStr(status) THEN status[1] ELSE @,
                !.end_time = IF end_time # NULL THEN end_time ELSE @,
                !.file_count = IF file_count # NULL THEN file_count ELSE @,
                !.error_message = IF TruthyText(error_message) THEN error_message ELSE @]]

\* UPDATE backups SET <the fields given> WHERE id = backup_id
\* (end_time is an isoformat string when given, so "if end_time" is "is not None")
update_backup(bs, backup_id, status, end_time, size_bytes, file_count, error_message) ==
    [i \in DOMAIN bs |->
        IF i # backup_id THEN bs[i]
        ELSE [bs[i] EXCEPT
                !.status = IF TruthyStr(status) THEN status[1] ELSE @,
                !.end_time = IF end_time # NULL THEN end_time ELSE @,
                !.size_bytes = IF size_bytes # NULL THEN size_bytes ELSE @,
                !.file_count = IF file_count # NULL THEN file_count ELSE @,
                !.error_message = IF TruthyText(error_message) THEN error_message ELSE @]]

-----------------------------------------------------------------------------
(* Transfer Executor: the backup command *)

\* f"ssh -p {port} -o StrictHostKeyChecking=no" [+ f" -i {key_path}"]
SshCmd(client) ==
    <<"ssh", "-p">> \o StrT(client.port) \o <<"-o", "StrictHostKeyChecking=no">>
      \o (IF TruthyText(Get(client, "key_path")) THEN <<"-i">> \o client.key_path[1] ELSE << >>)

\* mutant: the backup command without the mirror option
_build_rsync_command_no_delete(client, source_path, dest_path) ==
    LET base == << <<"rsync">>, <<"-avz">>, <<"-e">>, SshCmd(client) >>
        sudo == IF Get(client, "use_sudo") \notin {NULL, Some(0)}
                THEN << <<"--rsync-path">>, <<"sudo rsync">> >> ELSE << >>
        ends == << <<client.username, "@", client.host, ":">> \o source_path, dest_path >>
        cmd  == base \o sudo \o ends
    IN  IF TruthyText(Get(client, "password")) /\ ~TruthyText(Get(client, "key_path"))
        THEN << <<"sshpass">>, <<"-p">>, client.password[1] >> \o cmd
        ELSE cmd

\* mutant: sshpass is used whenever the host has a password
_build_rsync_command_always_sshpass(client, source_path, dest_path) ==
    LET base == << <<"rsync">>, <<"-avz">>, <<"--delete">>, <<"-e">>, SshCmd(client) >>
        sudo == IF Get(client, "use_sudo") \notin {NULL, Some(0)}
                THEN << <<"--rsync-path">>, <<"sudo rsync">> >> ELSE << >>
        ends == << <<client.username, "@", client.host, ":">> \o source_path, dest_path >>
        cmd  == base \o sudo \o ends
    IN  IF TruthyText(Get(client, "password"))
        THEN << <<"sshpass">>, <<"-p">>, client.password[1] >> \o cmd
        ELSE cmd

\* the argument list, each argument a text
_build_rsync_command(client, source_path, dest_path) ==
    LET base == << <<"rsync">>, <<"-avz">>, <<"--delete">>, <<"-e">>, SshCmd(client) >>
        sudo == IF Get(client, "use_sudo") \notin {NULL, Some(0)}
                THEN << <<"--rsync-path">>, <<"sudo rsync">> >> ELSE << >>
        ends == << <<client.username, "@", client.host, ":">> \o source_path, dest_path >>
        cmd  == base \o sudo \o ends
    IN  IF TruthyText(Get(client, "password")) /\ ~TruthyText(Get(client, "key_path"))
        THEN << <<"sshpass">>, <<"-p">>, client.password[1] >> \o cmd
        ELSE cmd

-----------------------------------------------------------------------------
(* Job Runner: run_backup_job, one action per Store call or process step *)

BackupDir == <<"/data/backups">>
JobNotFound == <<"Job not found">>
ClientNotFound == <<"Client not found">>
\* mutant: the text of the exception, which names the command
TimedOutMsg_as_exception == <<"Command", "sshpass", "timed out after 3600 seconds">>
TimedOutMsg == <<"Backup timed out after 1 hour">>
\* str(e) of the sqlite3.OperationalError a Store call raises
StoreFaultMsg == <<"database is locked">>
\* what the transfer process may write to stderr and to stdout
StderrTexts == {<< >>, <<"rsync error">>}
StdoutTexts == {<< >>, <<"sending incremental file list">>}
\* str(e) of an exception of subprocess.run other than TimeoutExpired
ExecFaultMsgs == {<<"[Errno 2] No such file or directory: 'rsync'">>}

NoCall ==
    [job_id |-> NULL, job |-> NULL, client |-> NULL, start_time |-> NULL,
     backup_path |-> NULL, backup_id |-> NULL, outcome |-> NULL,
     size_bytes |-> NULL, file_count |-> NULL, error_msg |-> NULL, result |-> NULL,
     \* history, for the properties: the rows this call inserted, and whether it
     \* wrote the job's last_run
     added |-> {}, wrote_last_run |-> FALSE]

Success(backup_id, size_bytes, file_count) ==
    [success |-> TRUE, error |-> NULL, backup_id |-> backup_id,
     size_bytes |-> size_bytes, file_count |-> file_count]

Failure(error_msg) ==
    [success |-> FALSE, error |-> Some(error_msg), backup_id |-> NULL,
     size_bytes |-> NULL, file_count |-> NULL]

\* mutant: the job's last_run is written before the Run is finalized
Flow_last_run_first(label, ev) ==
    CASE label = "add_backup"    -> IF ev = "ok" THEN "exec" ELSE "raised"
      [] label = "exec"          -> "running"
      [] label = "running"       -> CASE ev = "exit0"   -> "upd_last_run"
                                      [] ev = "nonzero" -> "upd_failed"
                                      [] ev = "timeout" -> "upd_timeout"
                                      [] OTHER          -> "upd_except"
      [] label = "upd_last_run"  -> IF ev = "ok" THEN "upd_completed" ELSE "upd_except"
      [] label = "upd_completed" -> IF ev = "ok" THEN "ret_ok" ELSE "upd_except"
      [] label = "upd_failed"    -> IF ev = "ok" THEN "ret_err" ELSE "upd_except"
      [] label = "upd_timeout"   -> IF ev = "ok" THEN "ret_err" ELSE "raised"
      [] OTHER                   -> IF ev = "ok" THEN "ret_err" ELSE "raised"

\* The control flow of run_backup_job from the insert of the Run on: the next
\* position after the step at `label` ended with event `ev` ("ok" / "fault" for a
\* Store call, the transfer's outcome for subprocess.run).  An exception raised
\* inside the try block enters "except Exception"; one raised inside a handler
\* or before the try block leaves the call.
Flow(label, ev) ==
    CASE label = "add_backup"    -> IF ev = "ok" THEN "exec" ELSE "raised"
      [] label = "exec"          -> "running"
      [] label = "running"       -> CASE ev = "exit0"   -> "upd_completed"
                                      [] ev = "nonzero" -> "upd_failed"
                                      [] ev = "timeout" -> "upd_timeout"
                                      [] OTHER          -> "upd_except"
      [] label = "upd_completed" -> IF ev = "ok" THEN "upd_last_run" ELSE "upd_except"
      [] label = "upd_last_run"  -> IF ev = "ok" THEN "ret_ok" ELSE "upd_except"
      [] label = "upd_failed"    -> IF ev = "ok" THEN "ret_err" ELSE "upd_except"
      [] label = "upd_timeout"   -> IF ev = "ok" THEN "ret_err" ELSE "raised"
      [] OTHER                   -> IF ev = "ok" THEN "ret_err" ELSE "raised"

Ended == {"ret_ok", "ret_err", "raised"}
StoreCalls == {"add_backup", "upd_completed", "upd_last_run", "upd_failed",
               "upd_timeout", "upd_except"}

\* the local variables once the call is at `label`: the return value is built
\* when the call returns
AtLabel(c, label) ==
    CASE label = "ret_ok"  -> [c EXCEPT !.result =
                                 Some(Success(c.backup_id, c.size_bytes, c.file_count))]
      [] label = "ret_err" -> [c EXCEPT !.result = Some(Failure(c.error_msg[1]))]
      [] OTHER             -> c

BackupPath(job, start_time) ==
    BackupDir \o <<"/">> \o StrT(job.client_id) \o <<"/">>
              \o job.name \o <<"_">> \o StrT(start_time)

\* mutant: the artifact directory is made before the host is looked up
BeginUpTo_makedirs_first(w, j, limit) ==
    /\ pc[w] = "idle"
    /\ Len(backups) + Cardinality({v \in Workers : pc[v] = "add_backup"}) < limit
    /\ LET job == get_job(jobs, clients, j)
           client == IF job = NULL THEN NULL ELSE get_client(clients, job[1].client_id)
       IN  IF job = NULL \/ client = NULL
           THEN /\ pc' = [pc EXCEPT ![w] = "ret_err"]
                /\ call' = [call EXCEPT ![w] = AtLabel(
                       [NoCall EXCEPT !.job_id = Some(j),
                                      !.error_msg = Some(IF job = NULL THEN JobNotFound
                                                         ELSE ClientNotFound)],
                       "ret_err")]
                /\ dirs' = IF job = NULL THEN dirs ELSE dirs \cup {BackupPath(job[1], now)}
           ELSE LET path == BackupPath(job[1], now)
                IN  /\ dirs' = dirs \cup {path}
                    /\ pc' = [pc EXCEPT ![w] = "add_backup"]
                    /\ call' = [call EXCEPT ![w] =
                           [NoCall EXCEPT !.job_id = Some(j), !.job = job,
                                          !.client = client, !.start_time = Some(now),
                                          !.backup_path = Some(path)]]
    /\ UNCHANGED <<clients, jobs, backups, triggers, started, log, now, req, seq>>

\* run_backup_job(j) up to os.makedirs, while fewer than `limit` Runs were begun
BeginUpTo(w, j, limit) ==
    /\ pc[w] = "idle"
    /\ Len(backups) + Cardinality({v \in Workers : pc[v] = "add_backup"}) < limit
    /\ LET job == get_job(jobs, clients, j)
           client == IF job = NULL THEN NULL ELSE get_client(clients, job[1].client_id)
       IN  IF job = NULL \/ client = NULL
           THEN /\ pc' = [pc EXCEPT ![w] = "ret_err"]
                /\ call' = [call EXCEPT ![w] = AtLabel(
                       [NoCall EXCEPT !.job_id = Some(j),
                                      !.error_msg = Some(IF job = NULL THEN JobNotFound
                                                         ELSE ClientNotFound)],
                       "ret_err")]
                /\ UNCHANGED dirs
           ELSE LET path == BackupPath(job[1], now)
                IN  /\ dirs' = dirs \cup {path}
                    /\ pc' = [pc EXCEPT ![w] = "add_backup"]
                    /\ call' = [call EXCEPT ![w] =
                           [NoCall EXCEPT !.job_id = Some(j), !.job = job,
                                          !.client = client, !.start_time = Some(now),
                                          !.backup_path = Some(path)]]
    /\ UNCHANGED <<clients, jobs, backups, triggers, started, log, now, req, seq>>

Begin(w, j) == BeginUpTo(w, j, MaxBackups)

AddBackup(w) ==
    /\ pc[w] = "add_backup"
    /\ backups' = add_backup(backups, call[w].job_id[1], "running",
                             call[w].start_time[1], call[w].backup_path[1])
    /\ LET id == Len(backups')
       IN  /\ call' = [call EXCEPT ![w].backup_id = Some(id), ![w].added = @ \cup {id}]
           /\ log' = log \cup {<<"Starting backup">> \o StrT(id) \o <<"for job">>
                                 \o StrT(call[w].job_id[1])}
    /\ pc' = [pc EXCEPT ![w] = Flow("add_backup", "ok")]
    /\ UNCHANGED <<clients, jobs, triggers, dirs, started, now, req, seq>>

StartTransfer(w) ==
    /\ pc[w] = "exec"
    /\ started' = started \cup {_build_rsync_command(call[w].client[1],
                                    call[w].job[1].source_path, call[w].backup_path[1])}
    /\ log' = log \cup {<<"Executing backup command for job">> \o StrT(call[w].job_id[1])
                          \o <<"(credentials redacted)">>}
    /\ pc' = [pc EXCEPT ![w] = Flow("exec", "ok")]
    /\ UNCHANGED <<clients, jobs, backups, triggers, dirs, now, call, req, seq>>

\* subprocess.run ends: the process exits with rc, after writing stderr / stdout;
\* the artifact directory is measured (the else branch never reads the measure)
Exit(w, rc, stderr, stdout, size, count) ==
    /\ pc[w] = "running"
    /\ LET ev == IF rc = 0 THEN "exit0" ELSE "nonzero"
       IN  /\ pc' = [pc EXCEPT ![w] = Flow("running", ev)]
           /\ call' = [call EXCEPT ![w].outcome = Some(ev),
                                   ![w].size_bytes = IF rc = 0 THEN Some(size) ELSE @,
                                   ![w].file_count = IF rc = 0 THEN Some(count) ELSE @,
                                   ![w].error_msg = IF rc = 0 THEN @
                                                    ELSE Some(OrText(stderr, stdout))]
    /\ UNCHANGED <<clients, jobs, backups, triggers, dirs, started, log, now, req, seq>>

\* subprocess.run raises TimeoutExpired after 3600 s
Timeout(w) ==
    /\ pc[w] = "running"
    /\ pc' = [pc EXCEPT ![w] = Flow("running", "timeout")]
    /\ call' = [call EXCEPT ![w].outcome = Some("timeout"),
                            ![w].error_msg = Some(TimedOutMsg)]
    /\ UNCHANGED <<clients, jobs, backups, triggers, dirs, started, log, now, req, seq>>

\* subprocess.run raises another exception
ExecFault(w, msg) ==
    /\ pc[w] = "running"
    /\ pc' = [pc EXCEPT ![w] = Flow("running", "exc")]
    /\ call' = [call EXCEPT ![w].outcome = Some("exc"), ![w].error_msg = Some(msg)]
    /\ UNCHANGED <<clients, jobs, backups, triggers, dirs, started, log, now, req, seq>>

UpdCompleted(w) ==
    /\ pc[w] = "upd_completed"
    /\ backups' = update_backup(backups, call[w].backup_id[1], Some("completed"),
                                Some(now), call[w].size_bytes, call[w].file_count, NULL)
    /\ pc' = [pc EXCEPT ![w] = Flow("upd_completed", "ok")]
    /\ call' = [call EXCEPT ![w] = AtLabel(@, pc'[w])]
    /\ UNCHANGED <<clients, jobs, triggers, dirs, started, log, now, req, seq>>

UpdLastRun(w) ==
    /\ pc[w] = "upd_last_run"
    /\ jobs' = update_job_last_run(jobs, call[w].job_id[1], now)
    /\ log' = log \cup {<<"Backup">> \o StrT(call[w].backup_id[1])
                          \o <<"completed successfully">>}
    /\ pc' = [pc EXCEPT ![w] = Flow("upd_last_run", "ok")]
    /\ call' = [call EXCEPT ![w] = AtLabel([@ EXCEPT !.wrote_last_run = TRUE], pc'[w])]
    /\ UNCHANGED <<clients, backups, triggers, dirs, started, now, req, seq>>

\* the three places that finalize the Run as failed: the else branch, the
\* TimeoutExpired handler and the Exception handler
UpdFailed(w) ==
    /\ pc[w] \in {"upd_failed", "upd_timeout", "upd_except"}
    /\ backups' = update_backup(backups, call[w].backup_id[1], Some("failed"),
                                Some(now), NULL, NULL, call[w].error_msg)
    /\ log' = log \cup {<<"Backup">> \o StrT(call[w].backup_id[1])
                          \o (CASE pc[w] = "upd_failed"  -> <<"failed:">> \o call[w].error_msg[1]
                                [] pc[w] = "upd_timeout" -> <<"timed out">>
                                [] OTHER -> <<"failed with exception:">> \o call[w].error_msg[1])}
    /\ pc' = [pc EXCEPT ![w] = Flow(pc[w], "ok")]
    /\ call' = [call EXCEPT ![w] = AtLabel(@, pc'[w])]
    /\ UNCHANGED <<clients, jobs, triggers, dirs, started, now, req, seq>>

\* A Store call of run_backup_job raises: nothing is committed, and the exception
\* goes where the control flow sends it.
StoreFault(w) ==
    /\ pc[w] \in StoreCalls
    /\ pc' = [pc EXCEPT ![w] = Flow(pc[w], "fault")]
    /\ call' = [call EXCEPT ![w] = AtLabel([@ EXCEPT !.error_msg = Some(StoreFaultMsg)],
                                           pc'[w])]
    /\ UNCHANGED <<clients, jobs, backups, triggers, dirs, started, log, now, req, seq>>

\* the call has ended and the worker is free again
Return(w) ==
    /\ pc[w] \in Ended
    /\ pc' = [pc EXCEPT ![w] = "idle"]
    /\ call' = [call EXCEPT ![w] = NoCall]
    /\ UNCHANGED <<clients, jobs, backups, triggers, dirs, started, log, now, req, seq>>

Tick ==
    /\ now < MaxTime
    /\ now' = now + 1
    /\ UNCHANGED <<clients, jobs, backups, triggers, dirs, started, log, pc, call, req, seq>>

-----------------------------------------------------------------------------
(* The Store the runs start from: a password host with a job, and a job whose *)
(* host row is gone (no job row has id 3).                                    *)

Passwords == {<<"hunter2">>, <<"s3cret">>}

KeyClient ==
    [name |-> "pi", host |-> "10.0.0.5", port |-> 22, username |-> "pi",
     auth_method |-> "key", password |-> NULL, key_path |-> Some(<<"/keys/id_rsa">>)]

PasswordClient(pw) ==
    [name |-> "nas", host |-> "10.0.0.6", port |-> 22, username |-> "root",
     auth_method |-> "password", password |-> Some(pw), key_path |-> NULL]

Job(client_id, name, source_path, schedule, enabled) ==
    [client_id |-> client_id, name |-> name, source_path |-> source_path,
     schedule |-> schedule, enabled |-> IF enabled THEN 1 ELSE 0, last_run |-> NULL]

RunJobIds == {1, 2, 3}

NoReq == [op |-> "none"]

InitRun ==
    /\ clients = (1 :> PasswordClient(<<"hunter2">>))
    /\ jobs = (1 :> Job(1, <<"home">>, <<"/", "home">>, NULL, TRUE))
              @@ (2 :> Job(2, <<"gone">>, <<"/", "srv">>, NULL, TRUE))
    /\ backups = << >>
    /\ triggers = {}
    /\ dirs = {}
    /\ started = {}
    /\ log = {}
    /\ now = 0
    /\ pc = [w \in Workers |-> "idle"]
    /\ call = [w \in Workers |-> NoCall]
    /\ req = NoReq
    /\ seq = [jobs |-> 2]

RunStep(w) ==
    \/ \E j \in RunJobIds : Begin(w, j)
    \/ AddBackup(w)
    \/ StartTransfer(w)
    \/ \E rc \in {0, 1}, stderr \in StderrTexts, stdout \in StdoutTexts,
          m \in Measures :
            Exit(w, rc, stderr, stdout, m[1], m[2])
    \/ Timeout(w)
    \/ \E msg \in ExecFaultMsgs : ExecFault(w, msg)
    \/ UpdCompleted(w)
    \/ UpdLastRun(w)
    \/ UpdFailed(w)
    \/ Return(w)

Next == Tick \/ \E w \in Workers : RunStep(w)

\* run_backup_job on two workers, the Store answering every call
Spec == InitRun /\ [][Next]_vars

NextFault == Next \/ \E w \in Workers : StoreFault(w)

\* the same, where any Store call of run_backup_job may raise
SpecFault == InitRun /\ [][NextFault]_vars

-----------------------------------------------------------------------------
(* Properties of run_backup_job *)

Finalized == {"completed", "failed"}

\* the Run a call inserted
RunOf(w) == backups[call[w].backup_id[1]]

\* C1: a Run's status only ever changes running -> completed or running -> failed,
\* and a completed or failed Run never changes status again, whatever the transfer
\* outcome and whichever Store call of run_backup_job raises.
C1_StatusFinalizedOnce ==
    [][\A i \in DOMAIN backups :
          backups'[i].status # backups[i].status
            => backups[i].status = "running" /\ backups'[i].status \in Finalized]_vars

\* C2: when a call of run_backup_job has ended, by returning or by raising, every
\* Run it inserted is completed or failed.
C2_NoRunLeftRunning ==
    \A w \in Workers :
        pc[w] \in Ended => \A i \in call[w].added : backups[i].status \in Finalized

\* C3: in every state of the Store a Run has an end time iff its status is not
\* running.
C3_EndTimeIffNotRunning ==
    \A i \in DOMAIN backups :
        (backups[i].end_time # NULL) <=> (backups[i].status # "running")

C3_Witness ==
    \E i \in DOMAIN backups : backups[i].status = "failed" /\ backups[i].end_time # NULL

\* C4: a call whose transfer exited 0 has added exactly one Run, of its job, that
\* is completed with an end time, a size >= 0 and a file count >= 0; the job's
\* last_run is set; and the call returns success with that size and file count.
C4_ExitZeroCompletes ==
    \A w \in Workers :
        (pc[w] \in Ended /\ call[w].outcome = Some("exit0")) =>
            /\ pc[w] = "ret_ok"
            /\ Cardinality(call[w].added) = 1
            /\ call[w].added = {call[w].backup_id[1]}
            /\ RunOf(w).job_id = call[w].job_id[1]
            /\ RunOf(w).status = "completed"
            /\ RunOf(w).end_time # NULL
            /\ RunOf(w).size_bytes # NULL /\ RunOf(w).size_bytes[1] >= 0
            /\ RunOf(w).file_count # NULL /\ RunOf(w).file_count[1] >= 0
            /\ jobs[call[w].job_id[1]].last_run # NULL
            /\ call[w].result # NULL
            /\ call[w].result[1].success
            /\ call[w].result[1].size_bytes = RunOf(w).size_bytes
            /\ call[w].result[1].file_count = RunOf(w).file_count

C4_Witness ==
    \E w \in Workers :
        /\ pc[w] = "ret_ok"
        /\ call[w].outcome = Some("exit0")
        /\ RunOf(w).size_bytes = Some(1)

\* C5: a call whose transfer failed (non-zero exit with any stderr and stdout, or an
\* execution fault) has added exactly one Run, of its job, that is failed with a
\* non-empty stored error text, and returns that same error text.
C5_FailureKeepsErrorText ==
    \A w \in Workers :
        (pc[w] \in Ended /\ call[w].outcome \in {Some("nonzero"), Some("exc")}) =>
            /\ pc[w] = "ret_err"
            /\ Cardinality(call[w].added) = 1
            /\ RunOf(w).job_id = call[w].job_id[1]
            /\ RunOf(w).status = "failed"
            /\ TruthyText(RunOf(w).error_message)
            /\ call[w].result # NULL
            /\ call[w].result[1].error = RunOf(w).error_message

\* C6: a call that does not return success (job or host missing, non-zero exit,
\* timeout, other fault, by returning a failure or by raising) has not written the
\* job's last_run; and every change of a last_run is the write of a call for
\* that job.
C6_FailureKeepsLastRun ==
    [][/\ \A j \in DOMAIN jobs :
             jobs'[j].last_run # jobs[j].last_run
               => \E w \in Workers : /\ call[w].job_id = Some(j)
                                     /\ ~call[w].wrote_last_run
                                     /\ call'[w].wrote_last_run
       /\ \A w \in Workers :
             pc'[w] \in {"ret_err", "raised"} => ~call'[w].wrote_last_run]_vars

C6_Witness ==
    \E w \in Workers :
        /\ pc[w] \in {"ret_err", "raised"}
        /\ call[w].backup_id # NULL
        /\ jobs[call[w].job_id[1]].last_run = NULL

-----------------------------------------------------------------------------
(* restore_backup *)

\* the 3600 of subprocess.run(..., timeout=3600)
TimeoutSeconds == 3600

\* SELECT b.*, j.name, j.client_id, j.source_path FROM backups b LEFT JOIN jobs j
get_backup(bs, js, backup_id) ==
    IF backup_id \notin DOMAIN bs THEN NULL
    ELSE LET b == bs[backup_id]
             there == b.job_id \in DOMAIN js
         IN  Some([id |-> backup_id,
                   job_name |-> IF there THEN Some(js[b.job_id].name) ELSE NULL,
                   client_id |-> IF there THEN Some(js[b.job_id].client_id) ELSE NULL,
                   source_path |-> IF there THEN Some(js[b.job_id].source_path) ELSE NULL]
                  @@ b)

\* path.startswith('/'), a path being a sequence of characters
StartsWithSlash(path) == Len(path) >= 1 /\ path[1] = "/"

\* mutant: the carriage return is missing from the list
DangerousChars_no_cr == {";", "&", "|", "BACKTICK", "$", "\n"}

\* dangerous_chars ("BACKTICK" is the character `)
DangerousChars == {";", "&", "|", "BACKTICK", "$", "\n", "\r"}

\* any(char in restore_path for char in dangerous_chars)
HasDangerousChar(path) == \E ch \in DangerousChars : \E i \in 1..Len(path) : path[i] = ch

\* the argument list of the restore transfer
\* mutant: the restore command never asks for sudo on the remote side
RestoreCommand_no_sudo(client, backup_path, restore_path) ==
    LET base == << <<"rsync">>, <<"-avz">>, <<"-e">>, SshCmd(client) >>
        ends == << backup_path \o <<"/">>,
                   <<client.username, "@", client.host, ":">> \o restore_path >>
        cmd  == base \o ends
    IN  IF TruthyText(Get(client, "password")) /\ ~TruthyText(Get(client, "key_path"))
        THEN << <<"sshpass">>, <<"-p">>, client.password[1] >> \o cmd
        ELSE cmd

\* mutant: the transfer source is the artifact path as stored, no separator added
RestoreCommand_no_slash(client, backup_path, restore_path) ==
    LET base == << <<"rsync">>, <<"-avz">>, <<"-e">>, SshCmd(client) >>
        sudo == IF Get(client, "use_sudo") \notin {NULL, Some(0)}
                THEN << <<"--rsync-path">>, <<"sudo rsync">> >> ELSE << >>
        ends == << backup_path,
                   <<client.username, "@", client.host, ":">> \o restore_path >>
        cmd  == base \o sudo \o ends
    IN  IF TruthyText(Get(client, "password")) /\ ~TruthyText(Get(client, "key_path"))
        THEN << <<"sshpass">>, <<"-p">>, client.password[1] >> \o cmd
        ELSE cmd

RestoreCommand(client, backup_path, restore_path) ==
    LET base == << <<"rsync">>, <<"-avz">>, <<"-e">>, SshCmd(client) >>
        sudo == IF Get(client, "use_sudo") \notin {NULL, Some(0)}
                THEN << <<"--rsync-path">>, <<"sudo rsync">> >> ELSE << >>
        ends == << backup_path \o <<"/">>,
                   <<client.username, "@", client.host, ":">> \o restore_path >>
        cmd  == base \o sudo \o ends
    IN  IF TruthyText(Get(client, "password")) /\ ~TruthyText(Get(client, "key_path"))
        THEN << <<"sshpass">>, <<"-p">>, client.password[1] >> \o cmd
        ELSE cmd

RECURSIVE ListRepr(_)
\* the items of str(list): 'a', 'b', ...
ListRepr(ss) ==
    IF ss = << >> THEN << >>
    ELSE <<"'">> \o Head(ss) \o <<"'">>
         \o (IF Tail(ss) = << >> THEN << >> ELSE <<", ">> \o ListRepr(Tail(ss)))

\* str(e) of subprocess.TimeoutExpired(cmd, timeout)
TimeoutExpiredStr(cmd) ==
    <<"Command '[">> \o ListRepr(cmd) \o <<"]' timed out after">>
        \o StrT(TimeoutSeconds) \o <<"seconds">>

\* how subprocess.run can end: [kind |-> "exit", rc |-> Some(returncode), stderr, stdout],
\* [kind |-> "timeout"] or [kind |-> "exc", msg]
ExitOutcomes ==
    [kind : {"exit"}, rc : {Some(0), Some(1)}, stderr : StderrTexts, stdout : StdoutTexts, msg : {NULL}]
OtherOutcomes ==
    [kind : {"timeout"}, rc : {NULL}, stderr : {NULL}, stdout : {NULL}, msg : {NULL}]
      \cup [kind : {"exc"}, rc : {NULL}, stderr : {NULL}, stdout : {NULL},
            msg : {Some(m) : m \in ExecFaultMsgs}]
Outcomes == ExitOutcomes \cup OtherOutcomes

RestoreFailure(error) == [success |-> FALSE, error |-> Some(error), message |-> NULL]
RestoreDone(r, lines, cmds) == [result |-> r, log |-> lines, cmds |-> cmds]

\* restore_backup(backup_id, restore_path) when subprocess.run, if it is reached,
\* ends with `outcome`: the return value, the log lines written and the
\* argument lists handed to subprocess.run
restore_backup(bs, js, cs, backup_id, restore_path, outcome) ==
    LET backup == get_backup(bs, js, backup_id)
        job == IF backup = NULL THEN NULL ELSE get_job(js, cs, backup[1].job_id)
        client == IF job = NULL THEN NULL ELSE get_client(cs, job[1].client_id)
        \* "if not restore_path: restore_path = backup['source_path']"
        dest == IF TruthyText(restore_path) THEN restore_path[1]
                ELSE backup[1].source_path[1]
        cmd == RestoreCommand(client[1], backup[1].backup_path, dest)
        starting == <<"Starting restore of backup">> \o StrT(backup_id) \o <<"to">> \o dest
        executing == <<"Executing restore command">>
    IN  IF backup = NULL THEN RestoreDone(RestoreFailure(<<"Backup not found">>), {}, {})
        ELSE IF job = NULL THEN RestoreDone(RestoreFailure(JobNotFound), {}, {})
        ELSE IF client = NULL THEN RestoreDone(RestoreFailure(ClientNotFound), {}, {})
        ELSE IF ~StartsWithSlash(dest)
             THEN RestoreDone(RestoreFailure(<<"Restore path must be absolute">>), {}, {})
        ELSE IF HasDangerousChar(dest)
             THEN RestoreDone(RestoreFailure(<<"Invalid restore path">>), {}, {})
        ELSE IF outcome.kind = "exit" /\ outcome.rc = Some(0)
             THEN RestoreDone([success |-> TRUE, error |-> NULL,
                               message |-> Some(<<"Restore completed successfully">>)],
                              {starting, executing,
                               <<"Restore of backup">> \o StrT(backup_id)
                                   \o <<"completed successfully">>},
                              {cmd})
        ELSE IF outcome.kind = "exit"
             THEN LET error_msg == OrText(outcome.stderr, outcome.stdout)
                  IN  RestoreDone(RestoreFailure(error_msg),
                                  {starting, executing,
                                   <<"Restore of backup">> \o StrT(backup_id)
                                       \o <<"failed:">> \o error_msg},
                                  {cmd})
        ELSE \* "except Exception as e", TimeoutExpired included
             LET e == IF outcome.kind = "timeout" THEN TimeoutExpiredStr(cmd)
                      ELSE outcome.msg[1]
             IN  RestoreDone(RestoreFailure(e),
                             {starting, executing, <<"Restore failed with exception:">> \o e},
                             {cmd})

\* the characters paths are drawn from
PathChars == {"/", "a", ";", "&", "|", "BACKTICK", "$", "\n", "\r"}

\* every string over PathChars of at most MaxPathLen characters
Paths == UNION {[1..n -> PathChars] : n \in 0..MaxPathLen}

DefaultSource == <<"/", "a">>

FinishedRun(job_id, backup_path) ==
    [job_id |-> job_id, status |-> "completed", start_time |-> 0, end_time |-> Some(0),
     size_bytes |-> Some(1), file_count |-> Some(1), error_message |-> NULL,
     backup_path |-> backup_path]

\* mutant: the restore is recorded as a Run of the job
Restore_adds_run(backup_id, restore_path, outcome) ==
    /\ req.op = "none"
    /\ LET r == restore_backup(backups, jobs, clients, backup_id, restore_path, outcome)
       IN  /\ req' = [op |-> "restore", backup_id |-> backup_id,
                      restore_path |-> restore_path, outcome |-> outcome,
                      result |-> r.result]
           /\ log' = log \cup r.log
           /\ started' = started \cup r.cmds
    /\ backups' = add_backup(backups, 1, "running", now, BackupDir)
    /\ UNCHANGED <<clients, jobs, triggers, dirs, now, pc, call, seq>>

\* a request of the web layer: restore_backup(backup_id, restore_path)
Restore(backup_id, restore_path, outcome) ==
    /\ req.op = "none"
    /\ LET r == restore_backup(backups, jobs, clients, backup_id, restore_path, outcome)
       IN  /\ req' = [op |-> "restore", backup_id |-> backup_id,
                      restore_path |-> restore_path, outcome |-> outcome,
                      result |-> r.result]
           /\ log' = log \cup r.log
           /\ started' = started \cup r.cmds
    /\ UNCHANGED <<clients, jobs, backups, triggers, dirs, now, pc, call, seq>>

\* the Store a restore starts from: a password host; job 1 on it, with any source
\* path; job 2, whose host row is gone; a Run of each and a Run of a job that is gone
InitRestore ==
    /\ \E pw \in Passwords : clients = (1 :> PasswordClient(pw))
    /\ \E src \in Paths :
          jobs = (1 :> Job(1, <<"home">>, src, NULL, TRUE))
                 @@ (2 :> Job(2, <<"gone">>, <<"/", "srv">>, NULL, TRUE))
    /\ backups = <<FinishedRun(1, BackupDir \o <<"/1/home_0">>),
                   FinishedRun(2, BackupDir \o <<"/2/gone_0">>),
                   FinishedRun(3, BackupDir \o <<"/3/lost_0">>)>>
    /\ triggers = {}
    /\ dirs = {}
    /\ started = {}
    /\ log = {}
    /\ now = 0
    /\ pc = [w \in Workers |-> "idle"]
    /\ call = [w \in Workers |-> NoCall]
    /\ req = NoReq
    /\ seq = [jobs |-> 2]

AnyOutcome == CHOOSE o \in Outcomes : TRUE

\* The restore paths tried: none, the empty one and, a supplied path making the
\* job's source path unread, every path when job 1 has the default source path.
RestorePathsTried ==
    {NULL, Some(<< >>)}
      \cup (IF jobs[1].source_path = DefaultSource THEN {Some(p) : p \in Paths} ELSE {})

\* The outcomes tried: every one when the call reaches subprocess.run, and one
\* (it is unread) when the call returns before.
OutcomesTried(backup_id, restore_path) ==
    IF restore_backup(backups, jobs, clients, backup_id, restore_path, AnyOutcome).cmds = {}
    THEN {AnyOutcome} ELSE Outcomes

NextRestore ==
    /\ req.op = "none"
    /\ \E backup_id \in 1..4, restore_path \in RestorePathsTried :
          \E outcome \in OutcomesTried(backup_id, restore_path) :
              Restore(backup_id, restore_path, outcome)

\* one restore_backup call on any Run, with any destination and any outcome
SpecRestore == InitRestore /\ [][NextRestore]_vars

-----------------------------------------------------------------------------
(* Properties of restore_backup *)

C7_Forbidden == {";", "&", "|", "BACKTICK", "$", "\n", "\r"}

C7_BadDestination(d) ==
    \/ Len(d) = 0
    \/ d[1] # "/"
    \/ \E i \in 1..Len(d) : d[i] \in C7_Forbidden

\* the destination of the last restore call: the supplied path, or the source path
\* of the Run's job when none is supplied
C7_Destination ==
    IF TruthyText(req.restore_path) THEN req.restore_path[1]
    ELSE jobs[backups[req.backup_id].job_id].source_path

C7_HasDestination ==
    /\ req.op = "restore"
    /\ \/ TruthyText(req.restore_path)
       \/ /\ req.backup_id \in DOMAIN backups
          /\ backups[req.backup_id].job_id \in DOMAIN jobs

Contains(text, sub) ==
    \E i \in 1..Len(text) :
        i + Len(sub) - 1 <= Len(text) /\ SubSeq(text, i, i + Len(sub) - 1) = sub

C8_Clean(output, pw) == output = NULL \/ ~Contains(output[1], pw)

\* C8: for a host authenticated by password, no log line, no error text stored in
\* a Run and no error text returned by run_backup_job or restore_backup contains
\* the password; and a restore with any other password in place of it writes the
\* same log lines and returns the same error text.
C8_NoPasswordInOutput ==
    \A c \in DOMAIN clients :
        TruthyText(clients[c].password) =>
            LET pw == clients[c].password[1]
            IN  /\ \A line \in log : ~Contains(line, pw)
                /\ \A i \in DOMAIN backups : C8_Clean(backups[i].error_message, pw)
                /\ \A w \in Workers :
                      call[w].result # NULL => C8_Clean(call[w].result[1].error, pw)
                /\ req.op = "restore" =>
                      /\ C8_Clean(req.result.error, pw)
                      /\ \A pw2 \in Passwords :
                            LET other == restore_backup(backups, jobs,
                                    [clients EXCEPT ![c].password = Some(pw2)],
                                    req.backup_id, req.restore_path, req.outcome)
                            IN  other.log = log /\ other.result.error = req.result.error

-----------------------------------------------------------------------------
(* Store: the jobs table (foreign keys are not enforced: no connection sets *)
(* PRAGMA foreign_keys, so a DELETE removes the one row)                    *)

add_job(js, job_id, client_id, name, source_path, schedule, enabled) ==
    (job_id :> Job(client_id, name, source_path, schedule, enabled)) @@ js

\* `data` gives, per key, NULL when the key is absent and Some(value) otherwise
update_job(js, job_id, data) ==
    [j \in DOMAIN js |->
        IF j # job_id THEN js[j]
        ELSE [js[j] EXCEPT
                !.name = IF data.name # NULL THEN data.name[1] ELSE @,
                !.schedule = IF data.schedule # NULL THEN data.schedule[1] ELSE @,
                !.enabled = IF data.enabled # NULL
                            THEN (IF data.enabled[1] THEN 1 ELSE 0) ELSE @]]

delete_job(js, job_id) == [j \in DOMAIN js \ {job_id} |-> js[j]]

\* the rows of get_all_jobs, as the set of their ids
get_all_jobs(js) == DOMAIN js

-----------------------------------------------------------------------------
(* Job Scheduler *)

RECURSIVE SplitFrom(_, _, _)
\* str.split(): the maximal runs of non-blank characters of s, left to right;
\* `word` is the run being read
SplitFrom(s, word, parts) ==
    IF s = << >> THEN (IF word = << >> THEN parts ELSE Append(parts, word))
    ELSE IF Head(s) = " "
         THEN SplitFrom(Tail(s), << >>, IF word = << >> THEN parts ELSE Append(parts, word))
         ELSE SplitFrom(Tail(s), Append(word, Head(s)), parts)

Split(s) == SplitFrom(s, << >>, << >>)

\* CronTrigger(minute, hour, day, month, day_of_week) raises ValueError on a field
\* that is no cron expression: here a field is one made of '*' and digits
CronChars == {"*", "0", "2"}
CronTriggerAccepts(parts) ==
    \A k \in 1..Len(parts) : \A i \in 1..Len(parts[k]) : parts[k][i] \in CronChars

\* mutant: the trigger is added beside the one already there
scheduler_add_job_no_replace(trigs, job_id, parts) ==
    trigs \cup {[id |-> job_id, args |-> job_id, trigger |-> parts]}

\* scheduler.add_job(id=f"job_{job_id}", replace_existing=True)
scheduler_add_job(trigs, job_id, parts) ==
    {t \in trigs : t.id # job_id} \cup {[id |-> job_id, args |-> job_id, trigger |-> parts]}

\* mutant: six fields are asked for instead of five
schedule_job_six_fields(trigs, js, cs, job_id) ==
    LET job == get_job(js, cs, job_id)
    IN  IF job = NULL THEN trigs
        ELSE IF ~TruthyText(job[1].schedule) THEN trigs
        ELSE LET parts == Split(job[1].schedule[1])
             IN  IF Len(parts) # 6 THEN trigs
                 ELSE IF ~CronTriggerAccepts(parts) THEN trigs
                 ELSE scheduler_add_job(trigs, job_id, parts)

\* mutant: a schedule of four fields is taken, the weekday defaulting to '*'
schedule_job_four_fields(trigs, js, cs, job_id) ==
    LET job == get_job(js, cs, job_id)
    IN  IF job = NULL THEN trigs
        ELSE IF ~TruthyText(job[1].schedule) THEN trigs
        ELSE LET parts == Split(job[1].schedule[1])
             IN  IF Len(parts) \notin {4, 5} THEN trigs
                 ELSE IF ~CronTriggerAccepts(parts) THEN trigs
                 ELSE scheduler_add_job(trigs, job_id, parts)

\* schedule_job(job_id): the trigger table afterwards (it raises nothing)
schedule_job(trigs, js, cs, job_id) ==
    LET job == get_job(js, cs, job_id)
    IN  IF job = NULL THEN trigs
        ELSE IF ~TruthyText(job[1].schedule) THEN trigs
        ELSE LET parts == Split(job[1].schedule[1])
             IN  IF Len(parts) # 5 THEN trigs
                 ELSE IF ~CronTriggerAccepts(parts) THEN trigs
                 ELSE scheduler_add_job(trigs, job_id, parts)

\* mutant: the trigger is left in place
unschedule_job_keeps(trigs, job_id) == trigs

\* mutant: every trigger is removed
unschedule_job_all(trigs, job_id) == {}

\* unschedule_job(job_id): remove_job, a JobLookupError being swallowed
unschedule_job(trigs, job_id) == {t \in trigs : t.id # job_id}

RECURSIVE LoadFrom_skips_orphans(_, _, _, _)
\* mutant: the rows whose host row is gone are not visited (an inner join)
LoadFrom_skips_orphans(trigs, js, cs, todo) ==
    IF todo = {} THEN trigs
    ELSE LET j == CHOOSE x \in todo : TRUE
             next == IF /\ js[j].client_id \in DOMAIN cs
                        /\ js[j].enabled # 0 /\ TruthyText(js[j].schedule)
                     THEN schedule_job(trigs, js, cs, j) ELSE trigs
         IN  LoadFrom_skips_orphans(next, js, cs, todo \ {j})

RECURSIVE LoadFrom(_, _, _, _)
\* the loop of _load_scheduled_jobs over the rows still to visit
LoadFrom(trigs, js, cs, todo) ==
    IF todo = {} THEN trigs
    ELSE LET j == CHOOSE x \in todo : TRUE
             next == IF js[j].enabled # 0 /\ TruthyText(js[j].schedule)
                     THEN schedule_job(trigs, js, cs, j) ELSE trigs
         IN  LoadFrom(next, js, cs, todo \ {j})

_load_scheduled_jobs(trigs, js, cs) == LoadFrom(trigs, js, cs, get_all_jobs(js))

-----------------------------------------------------------------------------
(* The job API of app.py, each request run to completion *)

Cron5 == <<"0", " ", "2", " ", "*", " ", "*", " ", "*">>
Cron5b == <<"*", " ", "*", " ", "*", " ", "*", " ", "*">>
Cron4 == <<"0", " ", "2", " ", "*", " ", "*">>
CronBad == <<"x", " ", "2", " ", "*", " ", "*", " ", "*">>

\* the schedule strings requests carry: '', two good ones, one of four fields and
\* one whose first field is no cron expression
Schedules == {<< >>, Cron5, Cron5b, Cron4, CronBad}
ScheduleValues == {NULL} \cup {Some(sc) : sc \in Schedules}

\* the body of POST /api/jobs: schedule is data.get('schedule'), enabled is NULL
\* when the key is absent
CreateData == [schedule : ScheduleValues, enabled : {NULL, Some(TRUE), Some(FALSE)}]

\* the body of PUT /api/jobs/<id>
UpdateData ==
    [name : {NULL, Some(<<"home">>)},
     schedule : {NULL} \cup {Some(v) : v \in ScheduleValues},
     enabled : {NULL, Some(TRUE), Some(FALSE)}]

HasTrigger(trigs, job_id) == \E t \in trigs : t.id = job_id

\* POST /api/jobs
CreateJob(data) ==
    /\ seq.jobs < MaxJobs
    /\ LET job_id == seq.jobs + 1
           enabled == IF data.enabled = NULL THEN TRUE ELSE data.enabled[1]
       IN  /\ jobs' = add_job(jobs, job_id, 1, <<"home">>, <<"/", "home">>,
                              data.schedule, enabled)
           /\ seq' = [seq EXCEPT !.jobs = job_id]
           /\ triggers' = IF enabled /\ TruthyText(data.schedule)
                          THEN schedule_job(triggers, jobs', clients, job_id)
                          ELSE triggers
           /\ req' = [op |-> "create", id |-> job_id, was_scheduled |-> FALSE]
    /\ UNCHANGED <<clients, backups, dirs, started, log, now, pc, call>>

\* PUT /api/jobs/<job_id>
UpdateJob(job_id, data) ==
    /\ jobs' = update_job(jobs, job_id, data)
    /\ triggers' =
          IF data.schedule # NULL \/ data.enabled # NULL
          THEN LET removed == unschedule_job(triggers, job_id)
                   job == get_job(jobs', clients, job_id)
               IN  IF job # NULL /\ job[1].enabled # 0 /\ TruthyText(job[1].schedule)
                   THEN schedule_job(removed, jobs', clients, job_id)
                   ELSE removed
          ELSE triggers
    /\ req' = [op |-> "update", id |-> job_id,
               was_scheduled |-> HasTrigger(triggers, job_id)]
    /\ UNCHANGED <<clients, backups, dirs, started, log, now, pc, call, seq>>

\* DELETE /api/jobs/<job_id>
DeleteJob(job_id) ==
    /\ triggers' = unschedule_job(triggers, job_id)
    /\ jobs' = delete_job(jobs, job_id)
    /\ req' = [op |-> "delete", id |-> job_id,
               was_scheduled |-> HasTrigger(triggers, job_id)]
    /\ UNCHANGED <<clients, backups, dirs, started, log, now, pc, call, seq>>

\* the process starts again: BackupManager.__init__ builds a scheduler and loads
\* the jobs of the Store into it
Restart ==
    /\ triggers' = _load_scheduled_jobs({}, jobs, clients)
    /\ req' = [op |-> "restart", id |-> 0, was_scheduled |-> FALSE]
    /\ UNCHANGED <<clients, jobs, backups, dirs, started, log, now, pc, call, seq>>

EmptyTable == [x \in {} |-> x]

\* a fresh Store with one host, and the scheduler BackupManager.__init__ loaded
InitApi ==
    /\ clients = (1 :> KeyClient)
    /\ jobs = EmptyTable
    /\ backups = << >>
    /\ triggers = _load_scheduled_jobs({}, EmptyTable, (1 :> KeyClient))
    /\ dirs = {}
    /\ started = {}
    /\ log = {}
    /\ now = 0
    /\ pc = [w \in Workers |-> "idle"]
    /\ call = [w \in Workers |-> NoCall]
    /\ req = NoReq
    /\ seq = [jobs |-> 0]

NextApi ==
    \/ \E data \in CreateData : CreateJob(data)
    \/ \E job_id \in 1..MaxJobs, data \in UpdateData : UpdateJob(job_id, data)
    \/ \E job_id \in 1..MaxJobs : DeleteJob(job_id)
    \/ Restart

\* job create, update and delete requests, one at a time, and restarts
SpecApi == InitApi /\ [][NextApi]_vars

-----------------------------------------------------------------------------
(* Properties of the trigger table *)

TriggerCount(job_id) == Cardinality({t \in triggers : t.id = job_id})

\* C9 as claimed: every stored job that is enabled and has a non-empty schedule
\* has exactly one trigger under its id.
C9_EnabledScheduledHasTrigger ==
    \A j \in DOMAIN jobs :
        (jobs[j].enabled # 0 /\ TruthyText(jobs[j].schedule)) => TriggerCount(j) = 1

C9_FiveFields(sc) ==
    LET blanks == {i \in 1..Len(sc) : sc[i] = " "}
        \* a field starts at a non-blank character that follows a blank or nothing
        starts == {i \in 1..Len(sc) : sc[i] # " " /\ (i = 1 \/ sc[i - 1] = " ")}
    IN  /\ Cardinality(starts) = 5
        /\ \A i \in 1..Len(sc) : sc[i] \in {" ", "*", "0", "2"}

\* C9 amended: every stored job that is enabled and whose schedule is five
\* blank-separated cron fields has exactly one trigger under its id.
C9_EnabledValidScheduleHasTrigger ==
    \A j \in DOMAIN jobs :
        (jobs[j].enabled # 0 /\ jobs[j].schedule # NULL /\ C9_FiveFields(jobs[j].schedule[1]))
            => TriggerCount(j) = 1

C9_Witness ==
    /\ req.op = "update"
    /\ req.id \in DOMAIN jobs
    /\ ~req.was_scheduled
    /\ jobs[req.id].enabled = 1
    /\ jobs[req.id].schedule = Some(Cron5b)
    /\ TriggerCount(req.id) = 1

\* C10: no trigger exists for a job that is disabled or has an empty schedule (or
\* is not stored), after the start-up rebuild and after every request.
C10_NoTriggerForIneligible ==
    \A t \in triggers :
        /\ t.id \in DOMAIN jobs
        /\ jobs[t.id].enabled # 0
        /\ TruthyText(jobs[t.id].schedule)

C10_Witness ==
    /\ req.op = "update"
    /\ req.was_scheduled
    /\ req.id \in DOMAIN jobs
    /\ jobs[req.id].enabled = 0
    /\ jobs[req.id].schedule = Some(Cron5)
    /\ ~HasTrigger(triggers, req.id)

-----------------------------------------------------------------------------
(* schedule_job and unschedule_job called on their own, between the requests *)

\* backup_manager.schedule_job(job_id)
ScheduleJob(job_id) ==
    /\ triggers' = schedule_job(triggers, jobs, clients, job_id)
    /\ req' = [op |-> "schedule", id |-> job_id,
               was_scheduled |-> HasTrigger(triggers, job_id), before |-> triggers]
    /\ UNCHANGED <<clients, jobs, backups, dirs, started, log, now, pc, call, seq>>

\* backup_manager.unschedule_job(job_id)
UnscheduleJob(job_id) ==
    /\ triggers' = unschedule_job(triggers, job_id)
    /\ req' = [op |-> "unschedule", id |-> job_id,
               was_scheduled |-> HasTrigger(triggers, job_id), before |-> triggers]
    /\ UNCHANGED <<clients, jobs, backups, dirs, started, log, now, pc, call, seq>>

NextSched ==
    \/ NextApi
    \/ \E job_id \in 1..MaxJobs : ScheduleJob(job_id)
    \/ \E job_id \in 1..MaxJobs : UnscheduleJob(job_id)

\* the job requests, and calls of schedule_job / unschedule_job for any id
SpecSched == InitApi /\ [][NextSched]_vars

\* C11: schedule_job(jobId) leaves the trigger table unchanged when the job does
\* not exist, has no schedule, or is disabled.
C11_ScheduleNoOpWhenIneligible ==
    (/\ req.op = "schedule"
     /\ \/ req.id \notin DOMAIN jobs
        \/ ~TruthyText(jobs[req.id].schedule)
        \/ jobs[req.id].enabled = 0)
        => triggers = req.before

C13_Others(trigs, job_id) == {t \in trigs : t.id # job_id}

\* C13: after unschedule_job(jobId) the id has no trigger, the triggers of all
\* other ids are as before, and a second call leaves the table as the first did.
C13_UnscheduleIdempotent ==
    req.op = "unschedule" =>
        /\ ~HasTrigger(triggers, req.id)
        /\ C13_Others(triggers, req.id) = C13_Others(req.before, req.id)
        /\ unschedule_job(triggers, req.id) = triggers

C13_Witness ==
    /\ req.op = "unschedule"
    /\ req.was_scheduled
    /\ ~HasTrigger(triggers, req.id)
    /\ triggers # {}

\* the number of blank-separated fields of a schedule string
C14_FieldCount(sc) ==
    Cardinality({i \in 1..Len(sc) : sc[i] # " " /\ (i = 1 \/ sc[i - 1] = " ")})

\* C14: after schedule_job(jobId) on a job whose schedule does not have exactly
\* five fields, the job has no trigger.
C14_NotFiveFieldsUnscheduled ==
    (/\ req.op = "schedule"
     /\ req.id \in DOMAIN jobs
     /\ jobs[req.id].schedule # NULL
     /\ C14_FieldCount(jobs[req.id].schedule[1]) # 5)
        => ~HasTrigger(triggers, req.id)

C14_Witness ==
    /\ req.op = "schedule"
    /\ req.id \in DOMAIN jobs
    /\ jobs[req.id].enabled = 1
    /\ jobs[req.id].schedule = Some(Cron4)
    /\ ~HasTrigger(triggers, req.id)

-----------------------------------------------------------------------------
(* Requests and scheduler calls on two threads, statement by statement.  Each  *)
(* Store call is one transaction and each scheduler call is one step (the      *)
(* scheduler serialises add_job and remove_job).                               *)

\* schedule_job up to the CronTrigger: the fields handed to scheduler.add_job,
\* or NULL when the call returns before it
schedule_job_parts(js, cs, job_id) ==
    LET job == get_job(js, cs, job_id)
    IN  IF job = NULL THEN NULL
        ELSE IF ~TruthyText(job[1].schedule) THEN NULL
        ELSE LET parts == Split(job[1].schedule[1])
             IN  IF Len(parts) # 5 THEN NULL
                 ELSE IF ~CronTriggerAccepts(parts) THEN NULL
                 ELSE Some(parts)

ConcJobIds == {1}

\* the PUT bodies sent: one key each
ConcData ==
    {d \in UpdateData :
        /\ Cardinality({k \in {"name", "schedule", "enabled"} : d[k] # NULL}) = 1
        /\ d.schedule # Some(Some(CronBad))}

\* the locals of a thread
NoConcCall == [op |-> "none", job_id |-> 0, parts |-> NULL]

\* the thread has returned
ConcReturn(w) ==
    /\ pc' = [pc EXCEPT ![w] = "idle"]
    /\ call' = [call EXCEPT ![w] = NoConcCall]

\* the get_job of schedule_job has been answered with `parts`
ConcScheduleRead(w, op, job_id, parts) ==
    IF parts = NULL THEN ConcReturn(w)
    ELSE /\ pc' = [pc EXCEPT ![w] = "sched_add"]
         /\ call' = [call EXCEPT ![w] = [op |-> op, job_id |-> job_id, parts |-> parts]]

\* PUT /api/jobs/<job_id>: db.update_job(job_id, data)
PutUpdate(w, job_id, data) ==
    /\ pc[w] = "idle"
    /\ jobs' = update_job(jobs, job_id, data)
    /\ IF data.schedule # NULL \/ data.enabled # NULL
       THEN /\ pc' = [pc EXCEPT ![w] = "put_unschedule"]
            /\ call' = [call EXCEPT ![w] = [op |-> "put", job_id |-> job_id, parts |-> NULL]]
       ELSE ConcReturn(w)
    /\ UNCHANGED <<clients, backups, triggers, dirs, started, log, now, req, seq>>

\* PUT: backup_manager.unschedule_job(job_id)
PutUnschedule(w) ==
    /\ pc[w] = "put_unschedule"
    /\ triggers' = unschedule_job(triggers, call[w].job_id)
    /\ pc' = [pc EXCEPT ![w] = "put_get_job"]
    /\ UNCHANGED <<clients, jobs, backups, dirs, started, log, now, call, req, seq>>

\* PUT: job = db.get_job(job_id) and the test on it
PutGetJob(w) ==
    /\ pc[w] = "put_get_job"
    /\ LET job == get_job(jobs, clients, call[w].job_id)
       IN  IF job # NULL /\ job[1].enabled # 0 /\ TruthyText(job[1].schedule)
           THEN pc' = [pc EXCEPT ![w] = "sched_get_job"] /\ UNCHANGED call
           ELSE ConcReturn(w)
    /\ UNCHANGED <<clients, jobs, backups, triggers, dirs, started, log, now, req, seq>>

\* PUT: schedule_job reads the job and builds the CronTrigger
PutScheduleRead(w) ==
    /\ pc[w] = "sched_get_job"
    /\ ConcScheduleRead(w, "put", call[w].job_id,
                        schedule_job_parts(jobs, clients, call[w].job_id))
    /\ UNCHANGED <<clients, jobs, backups, triggers, dirs, started, log, now, req, seq>>

\* schedule_job called on its own: it reads the job and builds the CronTrigger
CallScheduleJob(w, job_id) ==
    /\ pc[w] = "idle"
    /\ ConcScheduleRead(w, "schedule", job_id, schedule_job_parts(jobs, clients, job_id))
    /\ req' = [req EXCEPT !.direct = TRUE]
    /\ UNCHANGED <<clients, jobs, backups, triggers, dirs, started, log, now, seq>>

\* schedule_job: self.scheduler.add_job(..., replace_existing=True)
SchedAdd(w) ==
    /\ pc[w] = "sched_add"
    /\ triggers' = scheduler_add_job(triggers, call[w].job_id, call[w].parts[1])
    /\ req' = [req EXCEPT !.replaced =
                 \E t \in triggers : t.id = call[w].job_id /\ t.trigger # call[w].parts[1]]
    /\ ConcReturn(w)
    /\ UNCHANGED <<clients, jobs, backups, dirs, started, log, now, seq>>

\* unschedule_job called on its own
CallUnscheduleJob(w, job_id) ==
    /\ pc[w] = "idle"
    /\ triggers' = unschedule_job(triggers, job_id)
    /\ req' = [req EXCEPT !.direct = TRUE]
    /\ UNCHANGED <<clients, jobs, backups, dirs, started, log, now, pc, call, seq>>

\* a Store with one job in any condition, and the scheduler start-up loaded from it;
\* req notes whether schedule_job / unschedule_job was ever called on its own, and
\* whether the last add_job replaced a different trigger
InitConc ==
    /\ clients = (1 :> KeyClient)
    /\ \E sc \in {NULL, Some(Cron5), Some(Cron4)}, en \in BOOLEAN :
          jobs = (1 :> Job(1, <<"home">>, <<"/", "home">>, sc, en))
    /\ backups = << >>
    /\ triggers = _load_scheduled_jobs({}, jobs, clients)
    /\ dirs = {}
    /\ started = {}
    /\ log = {}
    /\ now = 0
    /\ pc = [w \in Workers |-> "idle"]
    /\ call = [w \in Workers |-> NoConcCall]
    /\ req = [op |-> "conc", direct |-> FALSE, replaced |-> FALSE]
    /\ seq = [jobs |-> 1]

ConcStep(w) ==
    \/ \E job_id \in ConcJobIds, data \in ConcData : PutUpdate(w, job_id, data)
    \/ PutUnschedule(w)
    \/ PutGetJob(w)
    \/ PutScheduleRead(w)
    \/ \E job_id \in ConcJobIds : CallScheduleJob(w, job_id)
    \/ SchedAdd(w)
    \/ \E job_id \in ConcJobIds : CallUnscheduleJob(w, job_id)

NextConc == \E w \in Workers : ConcStep(w)

\* update requests and scheduler calls of two threads, interleaved in any order
SpecConc == InitConc /\ [][NextConc]_vars

\* C12: the scheduler holds at most one trigger per job id, under any interleaving
\* of schedule_job and unschedule_job calls.
C12_AtMostOneTriggerPerId ==
    \A t1 \in triggers : \A t2 \in triggers : t1.id = t2.id => t1 = t2

C12_Witness ==
    /\ req.replaced
    /\ TriggerCount(1) = 1

-----------------------------------------------------------------------------
(* The client API of app.py, each request run to completion *)

\* UPDATE clients SET key = value, ... WHERE id = client_id
update_client(cs, client_id, data) ==
    [c \in DOMAIN cs |->
        IF c # client_id THEN cs[c]
        ELSE [cs[c] EXCEPT !.host = IF data.host # NULL THEN data.host[1] ELSE @]]

\* DELETE FROM clients WHERE id = client_id (the jobs of the host stay: foreign
\* keys are not enforced)
delete_client(cs, client_id) == [c \in DOMAIN cs \ {client_id} |-> cs[c]]

ClientIds == {1, 2}

\* the body of PUT /api/clients/<id>
ClientData == [host : {NULL, Some("10.0.0.9")}]

\* POST /api/clients: db.add_client is called with use_sudo=..., a keyword it does
\* not take; the TypeError is caught and the answer is 400, nothing being stored
CreateClient ==
    /\ req' = [op |-> "create_client", id |-> 0, was_scheduled |-> FALSE]
    /\ UNCHANGED <<clients, jobs, backups, triggers, dirs, started, log, now, pc, call, seq>>

\* PUT /api/clients/<client_id>
UpdateClient(client_id, data) ==
    /\ clients' = update_client(clients, client_id, data)
    /\ req' = [op |-> "update_client", id |-> client_id, was_scheduled |-> FALSE]
    /\ UNCHANGED <<jobs, backups, triggers, dirs, started, log, now, pc, call, seq>>

\* DELETE /api/clients/<client_id>
DeleteClient(client_id) ==
    /\ clients' = delete_client(clients, client_id)
    /\ req' = [op |-> "delete_client", id |-> client_id, was_scheduled |-> FALSE]
    /\ UNCHANGED <<jobs, backups, triggers, dirs, started, log, now, pc, call, seq>>

NextStore ==
    \/ NextApi
    \/ CreateClient
    \/ \E client_id \in ClientIds, data \in ClientData : UpdateClient(client_id, data)
    \/ \E client_id \in ClientIds : DeleteClient(client_id)

\* client and job requests, one at a time, and restarts
SpecStore == InitApi /\ [][NextStore]_vars

C15_Ids(trigs) == {t.id : t \in trigs}

\* C15: after any sequence of client and job requests the job ids with a trigger
\* are those a start-up rebuild on an empty scheduler gives from the Store.
C15_TriggersAreRebuild ==
    C15_Ids(triggers) = C15_Ids(_load_scheduled_jobs({}, jobs, clients))

C15_Witness ==
    /\ req.op = "delete_client"
    /\ DOMAIN clients = {}
    /\ \E j \in DOMAIN jobs : jobs[j].enabled = 0
    /\ \E j \in DOMAIN jobs : HasTrigger(triggers, j)

-----------------------------------------------------------------------------
(* DELETE /api/jobs/<job_id>, statement by statement *)

\* mutant: the row is deleted before the trigger is removed
DeleteOrder_row_first == <<"delete_job", "unschedule_job">>

\* the two statements of the DELETE branch, in program order
DeleteOrder == <<"unschedule_job", "delete_job">>

\* the trigger table and the jobs table after one of the two statements
DeleteStatement(name, trigs, js, job_id) ==
    IF name = "unschedule_job"
    THEN [triggers |-> unschedule_job(trigs, job_id), jobs |-> js]
    ELSE [triggers |-> trigs, jobs |-> delete_job(js, job_id)]

\* no DELETE request is between its two statements
NoDeleteRunning == req.op # "deleting"

DeleteFirst(job_id) ==
    /\ NoDeleteRunning
    /\ LET after == DeleteStatement(DeleteOrder[1], triggers, jobs, job_id)
       IN  triggers' = after.triggers /\ jobs' = after.jobs
    /\ req' = [op |-> "deleting", id |-> job_id,
               was_scheduled |-> HasTrigger(triggers, job_id)]
    /\ UNCHANGED <<clients, backups, dirs, started, log, now, pc, call, seq>>

DeleteSecond ==
    /\ req.op = "deleting"
    /\ LET after == DeleteStatement(DeleteOrder[2], triggers, jobs, req.id)
       IN  triggers' = after.triggers /\ jobs' = after.jobs
    /\ req' = [req EXCEPT !.op = "deleted"]
    /\ UNCHANGED <<clients, backups, dirs, started, log, now, pc, call, seq>>

\* the other job requests wait for a DELETE to end; the process may stop and start
\* again at any point
NextDelete ==
    \/ NoDeleteRunning /\ \E data \in CreateData : CreateJob(data)
    \/ NoDeleteRunning /\ \E job_id \in 1..MaxJobs, data \in UpdateData : UpdateJob(job_id, data)
    \/ \E job_id \in 1..MaxJobs : DeleteFirst(job_id)
    \/ DeleteSecond
    \/ Restart

SpecDelete == InitApi /\ [][NextDelete]_vars

\* C17: no trigger ever exists for a job id that is absent from the Store, also
\* between the statements of a DELETE request, and once the request has completed
\* the job is gone and has no trigger.
C17_DeleteUnregistersFirst ==
    /\ \A t \in triggers : t.id \in DOMAIN jobs
    /\ req.op = "deleted" => (req.id \notin DOMAIN jobs /\ ~HasTrigger(triggers, req.id))

C17_Witness ==
    /\ req.op = "deleted"
    /\ req.was_scheduled
    /\ req.id \notin DOMAIN jobs
    /\ triggers # {}

-----------------------------------------------------------------------------
(* Runs that overlap: two jobs of one host, started by hand or by their triggers *)

OverlapJobIds == {1, 2}

InitOverlap ==
    /\ clients = (1 :> KeyClient)
    /\ jobs = (1 :> Job(1, <<"home">>, <<"/", "home">>, Some(Cron5), TRUE))
              @@ (2 :> Job(1, <<"etc">>, <<"/", "etc">>, NULL, TRUE))
    /\ backups = << >>
    /\ triggers = _load_scheduled_jobs({}, jobs, clients)
    /\ dirs = {}
    /\ started = {}
    /\ log = {}
    /\ now = 0
    /\ pc = [w \in Workers |-> "idle"]
    /\ call = [w \in Workers |-> NoCall]
    /\ req = NoReq
    /\ seq = [jobs |-> 2]

\* the statements of run_backup_job, the transfer ending in one of four ways
OverlapStep(w) ==
    \/ \E j \in OverlapJobIds : BeginUpTo(w, j, MaxOverlap)
    \/ AddBackup(w)
    \/ StartTransfer(w)
    \/ \E rc \in {0, 1} : Exit(w, rc, <<"rsync error">>, << >>, 0, 0)
    \/ Timeout(w)
    \/ ExecFault(w, CHOOSE msg \in ExecFaultMsgs : TRUE)
    \/ UpdCompleted(w)
    \/ UpdLastRun(w)
    \/ UpdFailed(w)
    \/ Return(w)

NextOverlap == Tick \/ \E w \in Workers : OverlapStep(w)

SpecOverlap == InitOverlap /\ [][NextOverlap]_vars

-----------------------------------------------------------------------------
(* Further properties of restore_backup and run_backup_job *)

\* C19: a restore_backup call adds no Run and changes no host, job or Run record,
\* whatever its outcome.
C19_RestoreLeavesStore ==
    [][backups' = backups /\ jobs' = jobs /\ clients' = clients]_vars

C19_Witness ==
    /\ req.op = "restore"
    /\ req.outcome.kind = "timeout"
    /\ started # {}
    /\ ~req.result.success
    /\ Len(backups) = 3

\* C20: a call whose transfer timed out has finalized its Run as failed, with an
\* end time and the message 'Backup timed out after 1 hour', and returns a failure
\* with that message.
C20_TimeoutFixedMessage ==
    \A w \in Workers :
        (pc[w] \in Ended /\ call[w].outcome = Some("timeout")) =>
            /\ RunOf(w).status = "failed"
            /\ RunOf(w).end_time # NULL
            /\ RunOf(w).error_message = Some(<<"Backup timed out after 1 hour">>)
            /\ call[w].result = Some(Failure(<<"Backup timed out after 1 hour">>))

C20_Witness ==
    \E w \in Workers :
        /\ pc[w] = "ret_err"
        /\ call[w].outcome = Some("timeout")
        /\ call[w].client[1].password = Some(<<"hunter2">>)
        /\ RunOf(w).status = "failed"

-----------------------------------------------------------------------------
(* run_backup_job on a job that cannot be resolved *)

\* the job row or its host row is absent from the Store
C21_Unresolved(j) == j \notin DOMAIN jobs \/ jobs[j].client_id \notin DOMAIN clients

\* the artifact directories the resolvable jobs can get
C21_ResolvedPaths ==
    {BackupPath(jobs[j], t) : j \in {i \in DOMAIN jobs : ~C21_Unresolved(i)}, t \in 0..MaxTime}

\* C21: run_backup_job for an absent job, or a job whose host is absent, returns
\* the not-found failure; no Run of such a job, no artifact directory for it and
\* no transfer into one exists.
C21_NotFoundHasNoEffect ==
    /\ \A w \in Workers :
          (call[w].job_id # NULL /\ C21_Unresolved(call[w].job_id[1])) =>
              /\ pc[w] = "ret_err"
              /\ call[w].result =
                    Some(Failure(IF call[w].job_id[1] \notin DOMAIN jobs
                                 THEN <<"Job not found">> ELSE <<"Client not found">>))
              /\ call[w].added = {}
              /\ call[w].backup_path = NULL
    /\ \A i \in DOMAIN backups : ~C21_Unresolved(backups[i].job_id)
    /\ dirs \subseteq C21_ResolvedPaths
    /\ \A cmd \in started : cmd[Len(cmd)] \in C21_ResolvedPaths

C21_Witness ==
    \E w \in Workers : \E v \in Workers :
        /\ pc[w] = "ret_err"
        /\ call[w].job_id = Some(2)
        /\ call[w].result = Some(Failure(<<"Client not found">>))
        /\ pc[v] = "ret_err"
        /\ call[v].job_id = Some(3)
        /\ backups = << >> /\ dirs = {} /\ started = {}

-----------------------------------------------------------------------------
(* Requests on a Store that holds a host, a job of it and a Run of the job *)

InitCascade ==
    /\ clients = (1 :> KeyClient)
    /\ jobs = (1 :> Job(1, <<"home">>, <<"/", "home">>, Some(Cron5), TRUE))
    /\ backups = <<FinishedRun(1, BackupDir \o <<"/1/home_0">>)>>
    /\ triggers = _load_scheduled_jobs({}, jobs, clients)
    /\ dirs = {BackupDir \o <<"/1/home_0">>}
    /\ started = {}
    /\ log = {}
    /\ now = 0
    /\ pc = [w \in Workers |-> "idle"]
    /\ call = [w \in Workers |-> NoCall]
    /\ req = NoReq
    /\ seq = [jobs |-> 1]

\* client and job requests, one at a time, on that Store
SpecCascade == InitCascade /\ [][NextStore]_vars

\* C22: every Job references a stored Host and every Run references a stored Job,
\* so a deleted host leaves no Job and no Run behind, and a deleted job no Run.
C22_NoOrphans ==
    /\ \A j \in DOMAIN jobs : jobs[j].client_id \in DOMAIN clients
    /\ \A i \in DOMAIN backups : backups[i].job_id \in DOMAIN jobs

-----------------------------------------------------------------------------
(* get_statistics *)

\* the 1000 of get_all_backups(limit=1000)
StatsLimit == 1000

\* SELECT ... FROM clients, as the set of ids
get_all_clients(cs) == DOMAIN cs

\* SELECT ... FROM backups ORDER BY start_time DESC LIMIT limit, as the set of the
\* ids of the rows read
get_all_backups(bs, limit) ==
    IF Len(bs) <= limit THEN DOMAIN bs
    ELSE CHOOSE S \in SUBSET DOMAIN bs :
            /\ Cardinality(S) = limit
            /\ \A i \in S : \A k \in DOMAIN bs \ S : bs[i].start_time >= bs[k].start_time

RECURSIVE SumSizes(_, _)
\* sum(b.get('size_bytes', 0) or 0 for b in the rows `ids`)
SumSizes(bs, ids) ==
    IF ids = {} THEN 0
    ELSE LET i == CHOOSE x \in ids : TRUE
         IN  (IF bs[i].size_bytes = NULL THEN 0 ELSE bs[i].size_bytes[1])
                + SumSizes(bs, ids \ {i})

\* the Store reads of get_statistics, any of which may raise
StatsFaults == {"none", "get_all_clients", "get_all_jobs", "get_all_backups"}

\* the dict returned by the except branch
EmptyStats == << >>

\* the dict get_statistics builds when every read answers (total_size_gb, the
\* total in GiB rounded to two places, is not carried)
StatsDict(cs, js, bs) ==
    LET read == get_all_backups(bs, StatsLimit)
        done == {i \in read : bs[i].status = "completed"}
    IN  [total_clients |-> Cardinality(get_all_clients(cs)),
         total_jobs |-> Cardinality(get_all_jobs(js)),
         enabled_jobs |-> Cardinality({j \in get_all_jobs(js) : js[j].enabled # 0}),
         total_backups |-> Cardinality(read),
         successful_backups |-> Cardinality(done),
         failed_backups |-> Cardinality({i \in read : bs[i].status = "failed"}),
         total_size_bytes |-> SumSizes(bs, done)]

\* mutant: every run read is counted as successful
get_statistics_counts_all(cs, js, bs, fault) ==
    IF fault # "none" THEN [raised |-> FALSE, value |-> EmptyStats]
    ELSE [raised |-> FALSE,
          value |-> [StatsDict(cs, js, bs) EXCEPT
                        !.successful_backups = Cardinality(get_all_backups(bs, StatsLimit))]]

\* mutant: the exception of a failing read is raised again
get_statistics_reraises(cs, js, bs, fault) ==
    IF fault # "none" THEN [raised |-> TRUE, value |-> EmptyStats]
    ELSE [raised |-> FALSE, value |-> StatsDict(cs, js, bs)]

\* get_statistics() when the Store read `fault` raises ("none": every read answers):
\* whether the call raises, and the dict it returns
get_statistics(cs, js, bs, fault) ==
    IF fault # "none" THEN [raised |-> FALSE, value |-> EmptyStats]
    ELSE [raised |-> FALSE, value |-> StatsDict(cs, js, bs)]

MaxRuns == 3

\* a Run row of job 1 with the given status and size
StatsRun(status, size_bytes) ==
    [job_id |-> 1, status |-> status, start_time |-> 0,
     end_time |-> IF status = "running" THEN NULL ELSE Some(0),
     size_bytes |-> size_bytes,
     file_count |-> IF status = "completed" THEN Some(1) ELSE NULL,
     error_message |-> IF status = "failed" THEN Some(<<"rsync error">>) ELSE NULL,
     backup_path |-> BackupDir \o <<"/1/home_0">>]

\* the rows statistics are taken over: running, failed, and completed with a size
\* of 100, of 300 or with none
StatsRuns ==
    {StatsRun("running", NULL), StatsRun("failed", NULL)}
      \cup {StatsRun("completed", size) : size \in {NULL, Some(100), Some(300)}}

\* GET /api/stats
GetStatistics(fault) ==
    /\ req' = [op |-> "stats", fault |-> fault,
               result |-> get_statistics(clients, jobs, backups, fault)]
    /\ UNCHANGED <<clients, jobs, backups, triggers, dirs, started, log, now, pc, call, seq>>

InitStats ==
    /\ clients = (1 :> KeyClient)
    /\ jobs = (1 :> Job(1, <<"home">>, <<"/", "home">>, NULL, TRUE))
              @@ (2 :> Job(1, <<"etc">>, <<"/", "etc">>, NULL, FALSE))
    /\ backups \in UNION {[1..n -> StatsRuns] : n \in 0..MaxRuns}
    /\ triggers = {}
    /\ dirs = {}
    /\ started = {}
    /\ log = {}
    /\ now = 0
    /\ pc = [w \in Workers |-> "idle"]
    /\ call = [w \in Workers |-> NoCall]
    /\ req = NoReq
    /\ seq = [jobs |-> 2]

NextStats == \E fault \in StatsFaults : GetStatistics(fault)

\* get_statistics called on any table of up to MaxRuns runs
SpecStats == InitStats /\ [][NextStats]_vars

C23_Count(status, size_bytes) ==
    Cardinality({i \in DOMAIN backups :
                    backups[i].status = status /\ backups[i].size_bytes = size_bytes})

\* C23: get_statistics returns the number of completed runs, the number of failed
\* runs and the sum of the sizes of the completed runs, a null size counting 0;
\* for the runs (completed 100, completed 300, failed) that is 2, 1 and 400.
C23_StatisticsCounts ==
    (req.op = "stats" /\ req.fault = "none") =>
        /\ ~req.result.raised
        /\ req.result.value.successful_backups
              = Cardinality({i \in DOMAIN backups : backups[i].status = "completed"})
        /\ req.result.value.failed_backups
              = Cardinality({i \in DOMAIN backups : backups[i].status = "failed"})
        /\ req.result.value.total_size_bytes
              = 100 * C23_Count("completed", Some(100)) + 300 * C23_Count("completed", Some(300))
        /\ backups = <<StatsRun("completed", Some(100)), StatsRun("completed", Some(300)),
                       StatsRun("failed", NULL)>>
              => /\ req.result.value.successful_backups = 2
                 /\ req.result.value.failed_backups = 1
                 /\ req.result.value.total_size_bytes = 400

C23_Witness ==
    /\ req.op = "stats" /\ req.fault = "none"
    /\ backups = <<StatsRun("completed", Some(100)), StatsRun("completed", NULL),
                   StatsRun("failed", NULL)>>
    /\ req.result.value.successful_backups = 2
    /\ req.result.value.total_size_bytes = 100

\* C24: a get_statistics call in which a Store read fails raises nothing, returns
\* the empty result and leaves every Store record as it was.
C24_StatisticsFailSoft ==
    [][(req'.op = "stats" /\ req'.fault # "none") =>
          /\ ~req'.result.raised
          /\ req'.result.value = EmptyStats
          /\ clients' = clients /\ jobs' = jobs /\ backups' = backups]_vars

C24_Witness ==
    /\ req.op = "stats"
    /\ req.fault = "get_all_backups"
    /\ req.result.value = EmptyStats
    /\ Len(backups) = MaxRuns

-----------------------------------------------------------------------------
(* The clients table and the use_sudo keyword *)

\* db.add_client(name=..., ..., password=..., key_path=..., [use_sudo=...]): whether
\* the call raises, and the table afterwards.  add_client takes no use_sudo
\* parameter, so a call that passes the keyword raises TypeError before any SQL;
\* the row inserted has the seven columns of the INSERT.
add_client(cs, client_id, row, use_sudo) ==
    IF use_sudo # NULL THEN [raised |-> TRUE, clients |-> cs]
    ELSE [raised |-> FALSE, clients |-> (client_id :> row) @@ cs]

\* db.update_client(client_id, data) for a data dict with the keys host and
\* use_sudo (NULL: key absent): "UPDATE clients SET use_sudo = ?" names a column
\* the table does not have, and the execute raises sqlite3.OperationalError
update_client_keys(cs, client_id, data) ==
    IF data.use_sudo # NULL THEN [raised |-> TRUE, clients |-> cs]
    ELSE [raised |-> FALSE, clients |-> update_client(cs, client_id, [host |-> data.host])]

\* the rows added: a key host and a password host
SudoRows == {KeyClient, PasswordClient(<<"hunter2">>)}
SudoKeyword == {NULL, Some(FALSE), Some(TRUE)}
SudoData == [host : {NULL, Some("10.0.0.9")}, use_sudo : {NULL, Some(TRUE), Some(FALSE)}]

AddClient(row, use_sudo) ==
    /\ seq.clients < MaxClients
    /\ LET client_id == seq.clients + 1
           r == add_client(clients, client_id, row, use_sudo)
       IN  /\ clients' = r.clients
           /\ seq' = IF r.raised THEN seq ELSE [seq EXCEPT !.clients = client_id]
           /\ req' = [op |-> "add_client", id |-> IF r.raised THEN 0 ELSE client_id,
                      use_sudo |-> use_sudo, raised |-> r.raised]
    /\ UNCHANGED <<jobs, backups, triggers, dirs, started, log, now, pc, call>>

UpdateClientKeys(client_id, data) ==
    /\ LET r == update_client_keys(clients, client_id, data)
       IN  /\ clients' = r.clients
           /\ req' = [op |-> "update_client", id |-> client_id,
                      use_sudo |-> data.use_sudo, raised |-> r.raised]
    /\ UNCHANGED <<jobs, backups, triggers, dirs, started, log, now, pc, call, seq>>

InitSudo ==
    /\ clients = EmptyTable
    /\ jobs = EmptyTable
    /\ backups = << >>
    /\ triggers = {}
    /\ dirs = {}
    /\ started = {}
    /\ log = {}
    /\ now = 0
    /\ pc = [w \in Workers |-> "idle"]
    /\ call = [w \in Workers |-> NoCall]
    /\ req = NoReq
    /\ seq = [jobs |-> 0, clients |-> 0]

NextSudo ==
    \/ \E row \in SudoRows, use_sudo \in SudoKeyword : AddClient(row, use_sudo)
    \/ \E client_id \in 1..MaxClients, data \in SudoData : UpdateClientKeys(client_id, data)
    \/ \E client_id \in 1..MaxClients : DeleteClient(client_id)

\* calls of add_client, update_client and delete_client on the Store
SpecSudo == InitSudo /\ [][NextSudo]_vars

\* get_client(id)['use_sudo'] is the stored form of the flag
C25_ReadsBack(client_id, flag) ==
    /\ get_client(clients, client_id) # NULL
    /\ Get(get_client(clients, client_id)[1], "use_sudo") = Some(IF flag THEN 1 ELSE 0)

\* C25: a client added with use_sudo false / true is read back by get_client with
\* use_sudo 0 / 1, and update_client with use_sudo true makes get_client give 1.
C25_SudoFlagRoundTrips ==
    /\ (req.op = "add_client" /\ req.use_sudo # NULL) =>
          (~req.raised /\ C25_ReadsBack(req.id, req.use_sudo[1]))
    /\ (req.op = "update_client" /\ req.use_sudo = Some(TRUE) /\ req.id \in DOMAIN clients) =>
          (~req.raised /\ C25_ReadsBack(req.id, TRUE))

-----------------------------------------------------------------------------
(* The two command builders, on every host dict *)

\* the host dicts handed to the builders: any auth mode, a password that is
\* absent, empty or set, a key path that is absent, empty or set, and use_sudo absent
\* (a stored row), 0 or 1
CmdClients ==
    {[name |-> "pi", host |-> "10.0.0.5", port |-> 22, username |-> "pi",
      auth_method |-> am, password |-> pw, key_path |-> kp] @@ sudo :
        am \in {"key", "password"},
        pw \in {NULL, Some(<< >>), Some(<<"hunter2">>)},
        kp \in {NULL, Some(<< >>), Some(<<"/keys/id_rsa">>)},
        sudo \in {EmptyTable, [use_sudo |-> Some(0)], [use_sudo |-> Some(1)]}}

\* _build_rsync_command(client, source_path, dest_path) for the host dict held
BuildBackup(source_path) ==
    /\ req' = [op |-> "build", kind |-> "backup",
               cmd |-> _build_rsync_command(clients[1], source_path,
                                            BackupDir \o <<"/1/home_0">>)]
    /\ UNCHANGED <<clients, jobs, backups, triggers, dirs, started, log, now, pc, call, seq>>

\* the command restore_backup builds for the host dict held
BuildRestore(restore_path) ==
    /\ req' = [op |-> "build", kind |-> "restore",
               cmd |-> RestoreCommand(clients[1], BackupDir \o <<"/1/home_0">>,
                                      restore_path)]
    /\ UNCHANGED <<clients, jobs, backups, triggers, dirs, started, log, now, pc, call, seq>>

CmdPaths == {<<"/", "home">>, <<"/", "etc">>}

InitCmd ==
    /\ \E client \in CmdClients : clients = (1 :> client)
    /\ jobs = EmptyTable
    /\ backups = << >>
    /\ triggers = {}
    /\ dirs = {}
    /\ started = {}
    /\ log = {}
    /\ now = 0
    /\ pc = [w \in Workers |-> "idle"]
    /\ call = [w \in Workers |-> NoCall]
    /\ req = NoReq
    /\ seq = [jobs |-> 0]

NextCmd ==
    \/ \E source_path \in CmdPaths : BuildBackup(source_path)
    \/ \E restore_path \in CmdPaths : BuildRestore(restore_path)

\* the builders applied to every host dict
SpecCmd == InitCmd /\ [][NextCmd]_vars

CmdHasArg(cmd, arg) == \E i \in 1..Len(cmd) : cmd[i] = arg

\* C26: the command has '--rsync-path' immediately followed by 'sudo rsync' iff the
\* host's use_sudo flag is set, for the backup and for the restore command.
C26_SudoIffFlag ==
    req.op = "build" =>
        ((\E i \in 1..(Len(req.cmd) - 1) :
              req.cmd[i] = <<"--rsync-path">> /\ req.cmd[i + 1] = <<"sudo rsync">>)
           <=> ("use_sudo" \in DOMAIN clients[1] /\ clients[1].use_sudo = Some(1)))

C26_Witness ==
    /\ req.op = "build" /\ req.kind = "restore"
    /\ "use_sudo" \in DOMAIN clients[1] /\ clients[1].use_sudo = Some(1)
    /\ CmdHasArg(req.cmd, <<"sudo rsync">>)

\* C27: the backup command always has the argument '--delete' and the restore
\* command never has it, for every host dict.
C27_DeleteOnlyOnBackup ==
    req.op = "build" => (CmdHasArg(req.cmd, <<"--delete">>) <=> req.kind = "backup")

C27_Witness ==
    /\ req.op = "build" /\ req.kind = "backup"
    /\ CmdHasArg(req.cmd, <<"--delete">>)
    /\ CmdHasArg(req.cmd, <<"sudo rsync">>)
    /\ clients[1].password = Some(<<"hunter2">>)

\* the ssh argument names a key file
C28_HasKeyOption(cmd) ==
    \E i \in 1..Len(cmd) : \E k \in 1..Len(cmd[i]) : cmd[i][1] = "ssh" /\ cmd[i][k] = "-i"

\* the password is handed over by the sshpass prefix
C28_HasPassword(cmd) == cmd[1] = <<"sshpass">>

\* C28: a command carries the password only when the host has a password and no
\* key path, and never both the key file option and the password.
C28_AtMostOneCredential ==
    req.op = "build" =>
        /\ C28_HasPassword(req.cmd) <=>
              (/\ clients[1].password \notin {NULL, Some(<< >>)}
               /\ clients[1].key_path \in {NULL, Some(<< >>)})
        /\ ~(C28_HasKeyOption(req.cmd) /\ C28_HasPassword(req.cmd))

C28_Witness ==
    /\ req.op = "build"
    /\ clients[1].auth_method = "password"
    /\ clients[1].password = Some(<<"hunter2">>)
    /\ clients[1].key_path # NULL
    /\ C28_HasKeyOption(req.cmd)
    /\ ~C28_HasPassword(req.cmd)

-----------------------------------------------------------------------------
(* The destination and the source of a restore *)

\* the last restore call found its Run, its job and its host
C29_Found ==
    /\ req.op = "restore"
    /\ req.backup_id \in DOMAIN backups
    /\ backups[req.backup_id].job_id \in DOMAIN jobs
    /\ jobs[backups[req.backup_id].job_id].client_id \in DOMAIN clients

C29_Job == jobs[backups[req.backup_id].job_id]

C29_Remote(path) ==
    <<clients[C29_Job.client_id].username, "@", clients[C29_Job.client_id].host, ":">>
        \o path

\* restore_backup validated `dest` and, when it passed, transferred the Run's
\* artifact path followed by '/' to it
C29_RestoresTo(dest) ==
    IF C7_BadDestination(dest)
    THEN ~req.result.success /\ started = {}
    ELSE /\ started # {}
         /\ \A cmd \in started :
               /\ cmd[Len(cmd)] = C29_Remote(dest)
               /\ cmd[Len(cmd) - 1] = backups[req.backup_id].backup_path \o <<"/">>

-----------------------------------------------------------------------------
(* The order of the steps of run_backup_job *)

\* C30: the artifact directory is created, then the Run is inserted with status
\* running, and only then the transfer is started; while a transfer started by
\* run_backup_job is in progress, a Run with status running and that transfer's
\* artifact path is in the Store.
C30_DirThenRunThenTransfer ==
    /\ \A w \in Workers :
          /\ pc[w] \in {"add_backup", "exec", "running"} =>
                call[w].backup_path[1] \in dirs
          /\ pc[w] \in {"exec", "running"} =>
                /\ call[w].backup_id # NULL
                /\ call[w].backup_id[1] \in DOMAIN backups
                /\ RunOf(w).status = "running"
                /\ RunOf(w).backup_path = call[w].backup_path[1]
          /\ pc[w] = "running" =>
                \E cmd \in started : cmd[Len(cmd)] = call[w].backup_path[1]
    /\ \A cmd \in started :
          /\ cmd[Len(cmd)] \in dirs
          /\ \E i \in DOMAIN backups : backups[i].backup_path = cmd[Len(cmd)]

C30_Witness ==
    \E w \in Workers :
        /\ pc[w] = "running"
        /\ RunOf(w).status = "running"
        /\ RunOf(w).backup_path \in dirs
        /\ started # {}

-----------------------------------------------------------------------------
(* The start-up rebuild, job by job, where a call made for a job may raise *)

\* what fails while a job is scheduled: nothing, db.get_job (before the try
\* block of schedule_job) or scheduler.add_job (inside it)
LoadFaults == {"none", "get_job", "add_job"}

\* schedule_job(job_id) under a fault: whether it raised, and the trigger table
schedule_job_fault(trigs, js, cs, job_id, fault) ==
    IF fault = "get_job" THEN [raised |-> TRUE, triggers |-> trigs]
    ELSE IF fault = "add_job" THEN [raised |-> FALSE, triggers |-> trigs]
    ELSE [raised |-> FALSE, triggers |-> schedule_job(trigs, js, cs, job_id)]

\* mutant: the loop body without its try block
load_visit_no_try(trigs, js, cs, job_id, fault) ==
    IF js[job_id].enabled # 0 /\ TruthyText(js[job_id].schedule)
    THEN LET r == schedule_job_fault(trigs, js, cs, job_id, fault)
         IN  [raised |-> r.raised, triggers |-> r.triggers,
              log |-> IF r.raised THEN {}
                      ELSE {<<"Scheduled job">> \o StrT(job_id) \o <<":">> \o js[job_id].name}]
    ELSE [raised |-> FALSE, triggers |-> trigs, log |-> {}]

\* one pass of the loop body of _load_scheduled_jobs: whether it raised, the
\* trigger table and the log lines written
load_visit(trigs, js, cs, job_id, fault) ==
    IF js[job_id].enabled # 0 /\ TruthyText(js[job_id].schedule)
    THEN LET r == schedule_job_fault(trigs, js, cs, job_id, fault)
         IN  [raised |-> FALSE, triggers |-> r.triggers,
              log |-> IF r.raised
                      THEN {<<"Failed to schedule job">> \o StrT(job_id) \o <<":">>
                              \o StoreFaultMsg}
                      ELSE {<<"Scheduled job">> \o StrT(job_id) \o <<":">> \o js[job_id].name}]
    ELSE [raised |-> FALSE, triggers |-> trigs, log |-> {}]

\* jobs = self.db.get_all_jobs(); `faults` says what fails for which job
LoadBegin(faults) ==
    /\ req.op = "none"
    /\ req' = [op |-> "load", todo |-> get_all_jobs(jobs), faults |-> faults,
               raised |-> FALSE, done |-> FALSE]
    /\ UNCHANGED <<clients, jobs, backups, triggers, dirs, started, log, now, pc, call, seq>>

\* the loop body for the next row
LoadVisit(job_id) ==
    /\ req.op = "load" /\ ~req.done /\ ~req.raised
    /\ job_id \in req.todo
    /\ LET r == load_visit(triggers, jobs, clients, job_id, req.faults[job_id])
       IN  /\ triggers' = r.triggers
           /\ log' = log \cup r.log
           /\ req' = [req EXCEPT !.todo = @ \ {job_id}, !.raised = r.raised]
    /\ UNCHANGED <<clients, jobs, backups, dirs, started, now, pc, call, seq>>

\* _load_scheduled_jobs returns, or an exception leaves it
LoadEnd ==
    /\ req.op = "load" /\ ~req.done
    /\ req.todo = {} \/ req.raised
    /\ req' = [req EXCEPT !.done = TRUE]
    /\ UNCHANGED <<clients, jobs, backups, triggers, dirs, started, log, now, pc, call, seq>>

\* the schedule and enabled columns stored jobs have
LoadSchedules == {NULL, Some(<< >>), Some(Cron5), Some(Cron4), Some(CronBad)}

\* a Store of MaxJobs jobs with any schedules, and a scheduler just started
InitLoad ==
    /\ clients = (1 :> KeyClient)
    /\ \E sc \in [1..MaxJobs -> LoadSchedules], en \in [1..MaxJobs -> BOOLEAN] :
          jobs = [j \in 1..MaxJobs |-> Job(1, <<"home">>, <<"/", "home">>, sc[j], en[j])]
    /\ backups = << >>
    /\ triggers = {}
    /\ dirs = {}
    /\ started = {}
    /\ log = {}
    /\ now = 0
    /\ pc = [w \in Workers |-> "idle"]
    /\ call = [w \in Workers |-> NoCall]
    /\ req = NoReq
    /\ seq = [jobs |-> MaxJobs]

NextLoad ==
    \/ \E faults \in [1..MaxJobs -> LoadFaults] : LoadBegin(faults)
    \/ \E job_id \in 1..MaxJobs : LoadVisit(job_id)
    \/ LoadEnd

\* BackupManager.__init__ loading the jobs of any Store
SpecLoad == InitLoad /\ [][NextLoad]_vars

C31_Valid(schedule) ==
    /\ schedule \notin {NULL, Some(<< >>)}
    /\ Len(Split(schedule[1])) = 5
    /\ CronTriggerAccepts(Split(schedule[1]))

\* C31: the start-up rebuild raises nothing, and when it has ended every job
\* that is enabled, has a valid schedule and did not fail to schedule has its
\* trigger, whatever the schedules and failures of the other jobs.
C31_BadScheduleBlocksNoJob ==
    req.op = "load" =>
        /\ ~req.raised
        /\ req.done =>
              \A j \in DOMAIN jobs :
                  (jobs[j].enabled = 1 /\ C31_Valid(jobs[j].schedule)
                      /\ req.faults[j] = "none") => HasTrigger(triggers, j)

C31_Witness ==
    /\ req.op = "load" /\ req.done
    /\ \E j \in DOMAIN jobs, k \in DOMAIN jobs :
          /\ jobs[j].enabled = 1 /\ jobs[j].schedule = Some(Cron5)
          /\ req.faults[j] = "get_job"
          /\ ~HasTrigger(triggers, j)
          /\ jobs[k].enabled = 1 /\ req.faults[k] = "none"
          /\ HasTrigger(triggers, k)

-----------------------------------------------------------------------------
(* SSHClient: one remote operation on a freshly constructed object *)

\* the state of self.client at the end of connect(): "open" when paramiko
\* connected, "closed" when connect raised (no session was established)
\* and whether connect raised.  key_exists is os.path.exists(key_path), net_ok
\* whether the host accepts the connection.
ssh_connect(client, key_exists, net_ok) ==
    IF TruthyText(Get(client, "key_path")) /\ key_exists
    THEN (IF net_ok THEN [raised |-> FALSE, session |-> "open"]
          ELSE [raised |-> TRUE, session |-> "closed"])
    ELSE IF TruthyText(Get(client, "password"))
    THEN (IF net_ok THEN [raised |-> FALSE, session |-> "open"]
          ELSE [raised |-> TRUE, session |-> "closed"])
    ELSE \* ValueError("No authentication method provided")
         [raised |-> TRUE, session |-> "closed"]

\* disconnect(): self.client.close(); self.client = None
ssh_disconnect(session) == "closed"

\* where a remote call of an operation fails: nowhere, in exec_command / read of
\* the operation itself, in the sudo probe, in open_sftp, or in the sftp request
SshFaults == {"none", "exec", "sudo", "open_sftp", "sftp"}

SshEnd(session, sftp, raised, success) ==
    [session |-> session, sftp |-> sftp, raised |-> raised, success |-> success]

\* test_connection(check_sudo): the except branch returns a failure dict and
\* does not disconnect; check_sudo_access reuses the session and catches what its
\* own calls raise, so neither check_sudo nor a fault of the probe changes the end
ssh_test_connection(client, check_sudo, key_exists, net_ok, fault) ==
    LET c == ssh_connect(client, key_exists, net_ok)
    IN  IF c.raised THEN SshEnd(c.session, "none", FALSE, FALSE)
        ELSE IF fault = "exec" THEN SshEnd(c.session, "none", FALSE, FALSE)
        ELSE SshEnd(ssh_disconnect(c.session), "none", FALSE, TRUE)

\* execute_command(command): no path calls disconnect
ssh_execute_command(client, key_exists, net_ok, fault, exit_code) ==
    LET c == ssh_connect(client, key_exists, net_ok)
    IN  IF c.raised THEN SshEnd(c.session, "none", FALSE, FALSE)
        ELSE IF fault = "exec" THEN SshEnd(c.session, "none", FALSE, FALSE)
        ELSE SshEnd(c.session, "none", FALSE, exit_code = 0)

\* list_directory(path): the sftp channel is closed on success and on IOError,
\* the session on no path; every exception is raised again
ssh_list_directory(client, key_exists, net_ok, fault) ==
    LET c == ssh_connect(client, key_exists, net_ok)
    IN  IF c.raised THEN SshEnd(c.session, "none", TRUE, FALSE)
        ELSE IF fault = "open_sftp" THEN SshEnd(c.session, "none", TRUE, FALSE)
        ELSE IF fault = "sftp" THEN SshEnd(c.session, "closed", TRUE, FALSE)
        ELSE SshEnd(c.session, "closed", FALSE, TRUE)

\* get_file_info(path): sftp.close() on success only, the session on no path
ssh_get_file_info(client, key_exists, net_ok, fault) ==
    LET c == ssh_connect(client, key_exists, net_ok)
    IN  IF c.raised THEN SshEnd(c.session, "none", FALSE, FALSE)
        ELSE IF fault = "open_sftp" THEN SshEnd(c.session, "none", FALSE, FALSE)
        ELSE IF fault = "sftp" THEN SshEnd(c.session, "open", FALSE, FALSE)
        ELSE SshEnd(c.session, "closed", FALSE, TRUE)

\* POST /api/clients/<id>/test: SSHClient(...).test_connection(check_sudo)
TestConnection(check_sudo, key_exists, net_ok, fault) ==
    /\ req.op = "none"
    /\ req' = [op |-> "ssh", method |-> "test_connection", key_exists |-> key_exists,
               net_ok |-> net_ok, fault |-> fault,
               end |-> ssh_test_connection(clients[1], check_sudo, key_exists, net_ok, fault)]
    /\ UNCHANGED <<clients, jobs, backups, triggers, dirs, started, log, now, pc, call, seq>>

\* SSHClient(...).execute_command(command)
ExecuteCommand(key_exists, net_ok, fault, exit_code) ==
    /\ req.op = "none"
    /\ req' = [op |-> "ssh", method |-> "execute_command", key_exists |-> key_exists,
               net_ok |-> net_ok, fault |-> fault,
               end |-> ssh_execute_command(clients[1], key_exists, net_ok, fault, exit_code)]
    /\ UNCHANGED <<clients, jobs, backups, triggers, dirs, started, log, now, pc, call, seq>>

\* POST /api/clients/<id>/browse: SSHClient(...).list_directory(path)
ListDirectory(key_exists, net_ok, fault) ==
    /\ req.op = "none"
    /\ req' = [op |-> "ssh", method |-> "list_directory", key_exists |-> key_exists,
               net_ok |-> net_ok, fault |-> fault,
               end |-> ssh_list_directory(clients[1], key_exists, net_ok, fault)]
    /\ UNCHANGED <<clients, jobs, backups, triggers, dirs, started, log, now, pc, call, seq>>

\* SSHClient(...).get_file_info(path)
GetFileInfo(key_exists, net_ok, fault) ==
    /\ req.op = "none"
    /\ req' = [op |-> "ssh", method |-> "get_file_info", key_exists |-> key_exists,
               net_ok |-> net_ok, fault |-> fault,
               end |-> ssh_get_file_info(clients[1], key_exists, net_ok, fault)]
    /\ UNCHANGED <<clients, jobs, backups, triggers, dirs, started, log, now, pc, call, seq>>

\* any stored host, no operation called yet
InitSsh == InitCmd

NextSsh ==
    \E key_exists \in BOOLEAN, net_ok \in BOOLEAN :
        \/ \E check_sudo \in BOOLEAN, fault \in {"none", "exec", "sudo"} :
              TestConnection(check_sudo, key_exists, net_ok, fault)
        \/ \E fault \in {"none", "exec"}, exit_code \in {0, 1} :
              ExecuteCommand(key_exists, net_ok, fault, exit_code)
        \/ \E fault \in {"none", "open_sftp", "sftp"} :
              ListDirectory(key_exists, net_ok, fault)
        \/ \E fault \in {"none", "open_sftp", "sftp"} :
              GetFileInfo(key_exists, net_ok, fault)

\* one remote operation of an SSHClient built for any host
SpecSsh == InitSsh /\ [][NextSsh]_vars

\* C32: when test_connection, list_directory, execute_command or get_file_info
\* has ended, by success, remote fault or local exception, the session is closed.
C32_SessionClosedAtEnd ==
    req.op = "ssh" => (req.end.session = "closed" /\ req.end.sftp # "open")

-----------------------------------------------------------------------------
(* What run_backup_job leaves alone *)

\* the calls in progress that take a step
C33_Stepping == {w \in Workers : pc'[w] # pc[w]}

\* C33: a step of run_backup_job(jobId) changes only the Run its call inserted
\* and the last-run time of job jobId; every other Run, every other job field,
\* every host and the trigger table stay as they are, also with several calls
\* in progress.
C33_RunChangesOwnRecordsOnly ==
    [][/\ clients' = clients
       /\ triggers' = triggers
       /\ DOMAIN jobs' = DOMAIN jobs
       /\ \A j \in DOMAIN jobs :
             /\ jobs'[j] = [jobs[j] EXCEPT !.last_run = jobs'[j].last_run]
             /\ jobs'[j] # jobs[j] =>
                   \E w \in C33_Stepping : call[w].job_id = Some(j)
       /\ Len(backups') \in {Len(backups), Len(backups) + 1}
       /\ \A i \in DOMAIN backups :
             backups'[i] # backups[i] =>
                 \E w \in C33_Stepping : call[w].backup_id = Some(i)
       /\ Len(backups') = Len(backups) + 1 =>
             \E w \in C33_Stepping :
                 /\ call'[w].backup_id = Some(Len(backups'))
                 /\ backups'[Len(backups')].job_id = call[w].job_id[1]]_vars

C33_Witness ==
    /\ Len(backups) = 2
    /\ backups[1].status = "completed" /\ backups[2].status = "running"
    /\ backups[1].job_id # backups[2].job_id
    /\ jobs[backups[1].job_id].last_run # NULL
    /\ jobs[backups[2].job_id].last_run = NULL
    /\ \A w \in Workers : pc[w] # "idle"

-----------------------------------------------------------------------------
(* Trigger firings interleaved with update requests *)

\* a trigger of the scheduler fires: _run_scheduled_backup(job_id) logs and calls
\* run_backup_job(job_id), whose first statement reads the job; req.begun keeps
\* the id and the stored enabled column at that moment (NULL: no such row)
Fire(job_id) ==
    /\ \E t \in triggers : t.id = job_id /\ t.args = job_id
    /\ log' = log \cup {<<"Running scheduled backup for job">> \o StrT(job_id)}
    /\ LET job == get_job(jobs, clients, job_id)
       IN  req' = [req EXCEPT !.begun =
                      Some([job_id |-> job_id,
                            enabled |-> IF job = NULL THEN NULL ELSE Some(job[1].enabled)])]
    /\ UNCHANGED <<clients, jobs, backups, triggers, dirs, started, now, pc, call, seq>>

\* as InitConc, no scheduled call begun yet
InitFire ==
    /\ clients = (1 :> KeyClient)
    /\ \E sc \in {NULL, Some(Cron5), Some(Cron4)}, en \in BOOLEAN :
          jobs = (1 :> Job(1, <<"home">>, <<"/", "home">>, sc, en))
    /\ backups = << >>
    /\ triggers = _load_scheduled_jobs({}, jobs, clients)
    /\ dirs = {}
    /\ started = {}
    /\ log = {}
    /\ now = 0
    /\ pc = [w \in Workers |-> "idle"]
    /\ call = [w \in Workers |-> NoConcCall]
    /\ req = [op |-> "conc", direct |-> FALSE, replaced |-> FALSE, begun |-> NULL]
    /\ seq = [jobs |-> 1]

\* the statements of a PUT request
PutStep(w) ==
    \/ \E job_id \in ConcJobIds, data \in ConcData : PutUpdate(w, job_id, data)
    \/ PutUnschedule(w)
    \/ PutGetJob(w)
    \/ PutScheduleRead(w)
    \/ SchedAdd(w)

NextFire ==
    \/ \E w \in Workers : PutStep(w)
    \/ \E job_id \in ConcJobIds : Fire(job_id)

\* update requests of two threads and firings of the scheduler, in any order
SpecFire == InitFire /\ [][NextFire]_vars

\* C34: no scheduled call of run_backup_job(jobId) begins while the Store holds
\* the job with enabled = false, in any interleaving of firings and updates.
C34_NoScheduledRunOfDisabledJob ==
    req.begun # NULL => req.begun[1].enabled # Some(0)

-----------------------------------------------------------------------------
(* A DELETE request interleaved with PUT requests *)

\* DELETE /api/jobs/<job_id>: backup_manager.unschedule_job(job_id)
DelUnschedule(w, job_id) ==
    /\ pc[w] = "idle"
    /\ triggers' = unschedule_job(triggers, job_id)
    /\ pc' = [pc EXCEPT ![w] = "del_row"]
    /\ call' = [call EXCEPT ![w] = [op |-> "delete", job_id |-> job_id, parts |-> NULL]]
    /\ UNCHANGED <<clients, jobs, backups, dirs, started, log, now, req, seq>>

\* DELETE: db.delete_job(job_id), and the response
DelRow(w) ==
    /\ pc[w] = "del_row"
    /\ jobs' = delete_job(jobs, call[w].job_id)
    /\ ConcReturn(w)
    /\ UNCHANGED <<clients, backups, triggers, dirs, started, log, now, req, seq>>

RaceStep(w) ==
    \/ PutStep(w)
    \/ \E job_id \in ConcJobIds : DelUnschedule(w, job_id)
    \/ DelRow(w)

NextRace == \E w \in Workers : RaceStep(w)

\* update and delete requests of two threads, statement by statement
SpecRace == InitConc /\ [][NextRace]_vars

\* C35: once a delete request and the update requests running beside it have
\* completed, no trigger exists for the deleted job id.
C35_NoTriggerForDeletedJob ==
    (\A w \in Workers : pc[w] = "idle") =>
        \A job_id \in ConcJobIds :
            job_id \notin DOMAIN jobs => ~HasTrigger(triggers, job_id)

====
